---- MODULE Spec2Model ----
(***************************************************************************)
(* A model of tex_fix_heading.py: the TexHeadingFixer class (symbol table, *)
(* transliteration engine, heading scanner, file driver) and main.         *)
(*                                                                         *)
(* A Python str is modelled as a sequence of one-character strings; a      *)
(* non-ASCII character is written by its code point ("U+03B1" is alpha).   *)
(* Offsets into a line are Python's 0-based offsets: the character at      *)
(* Python offset p is line[p + 1] here.                                    *)
(***************************************************************************)
EXTENDS Integers, Sequences, FiniteSets, TLC

VARIABLES
  pc,             \* position of the running call ("idle" between calls)
  mapping_file,   \* the mapping file on disk
  math_mappings,  \* self.math_mappings: insertion-ordered <<key, rendering>> pairs
  constructed,    \* whether a TexHeadingFixer has been constructed
  auto_yes,       \* self.auto_yes
  warnings,       \* number of "Warning:" diagnostics printed
  line,           \* process_line: the line argument
  matches,        \* process_line: list(re.finditer(math_pattern, line))
  k,              \* process_line: matches still to visit (reversed iteration)
  modified_line,  \* process_line: modified_line
  unicode_repr,   \* process_line: unicode_repr of the span being resolved
  result,         \* value returned by the last finished call
  prev_result,    \* value returned by the process_line call before the last one
  calls,          \* number of process_line calls begun
  prompted,       \* the input() requests made so far, by kind
  trail,          \* what became of each span visited, most recent last
  formula_arg,    \* create_fallback_representation: the formula argument
  pos_arg,        \* is_inside_texorpdfstring: the match_start argument
  inside,         \* value returned by is_inside_texorpdfstring
  doc,            \* the input document on disk
  out_file,       \* the output document
  saved,          \* number of save_mappings calls
  i,              \* process_file: lines taken from the document so far
  modified_lines, \* process_file: modified_lines
  changes_made,   \* process_file: changes_made
  exc,            \* exception that ended the run ("none" if none)
  exit_code       \* exit status of the process (-1 while it runs)

fixerVars == <<mapping_file, math_mappings, constructed, auto_yes, warnings>>
lineVars == <<line, matches, k, modified_line, unicode_repr, result,
              prev_result, calls, prompted, trail>>
apiVars == <<formula_arg, pos_arg, inside>>
fileVars == <<doc, out_file, saved, i, modified_lines, changes_made, exc,
              exit_code>>
vars == <<pc, fixerVars, lineVars, apiVars, fileVars>>

(***************************************************************************)
(* Characters and character classes of the regular expressions.            *)
(***************************************************************************)
BS == "\\"

\* [a-zA-Z]
Letters ==
  {"a","b","c","d","e","f","g","h","i","j","k","l","m","n","o","p","q","r",
   "s","t","u","v","w","x","y","z","A","B","C","D","E","F","G","H","I","J",
   "K","L","M","N","O","P","Q","R","S","T","U","V","W","X","Y","Z"}

\* [0-9]
Digits == {"0","1","2","3","4","5","6","7","8","9"}

\* \s
Whitespace == {" ", "\t", "\n"}

\* [+\-*/=<>]
Operators == {"+", "-", "*", "/", "=", "<", ">"}

\* the division placeholder, six characters
FRAC == <<"U+27E8", "F", "R", "A", "C", "U+27E9">>

SQRT == "U+221A"

(***************************************************************************)
(* str helpers.  A scan over a string is written as "the least offset at   *)
(* which ...", so that the depth of a recursion is the number of matches   *)
(* and not the length of the string.                                       *)
(***************************************************************************)
MinOf(S) == CHOOSE x \in S : \A y \in S : x <= y

\* s[a:b] with Python offsets 0 <= a, b
Slice(s, a, b) == SubSeq(s, a + 1, b)

\* s.startswith(t, p)
StartsAt(s, t, p) ==
  /\ p + Len(t) <= Len(s)
  /\ \A j \in 1..Len(t) : s[p + j] = t[j]

\* t in s
Contains(s, t) == \E p \in 0..(Len(s) - Len(t)) : StartsAt(s, t, p)

\* c in s, for one character
HasChar(s, c) == \E j \in 1..Len(s) : s[j] = c

\* offset of the first character at or after p that is in cls, Len(s) if
\* there is none
NextIn(s, cls, p) ==
  LET at == {q \in p..(Len(s) - 1) : s[q + 1] \in cls}
  IN  IF at = {} THEN (IF p > Len(s) THEN p ELSE Len(s)) ELSE MinOf(at)

\* offset just after the run of characters of class cls that starts at p
SkipClass(s, cls, p) ==
  LET at == {q \in p..(Len(s) - 1) : s[q + 1] \notin cls}
  IN  IF at = {} THEN (IF p > Len(s) THEN p ELSE Len(s)) ELSE MinOf(at)

\* s.replace(old, new) for a non-empty old
RECURSIVE StrReplaceFrom(_, _, _, _)
StrReplaceFrom(s, old, new, p) ==
  LET at == {q \in p..(Len(s) - Len(old)) : StartsAt(s, old, q)}
  IN  IF at = {} THEN Slice(s, p, Len(s))
      ELSE Slice(s, p, MinOf(at)) \o new
             \o StrReplaceFrom(s, old, new, MinOf(at) + Len(old))

\* s.replace('', new): new before every character and at the end
Interleave(s, new) ==
  [j \in 1..((Len(s) + 1) * Len(new) + Len(s)) |->
     LET block == (j - 1) \div (Len(new) + 1)
         off == (j - 1) % (Len(new) + 1)
     IN  IF off < Len(new) THEN new[off + 1] ELSE s[block + 1]]

\* s.replace(old, new)
StrReplace(s, old, new) ==
  IF old = <<>> THEN Interleave(s, new) ELSE StrReplaceFrom(s, old, new, 0)

\* c.lower(), for one character
LowerOf ==
  ("A" :> "a") @@ ("B" :> "b") @@ ("C" :> "c") @@ ("D" :> "d") @@
  ("E" :> "e") @@ ("F" :> "f") @@ ("G" :> "g") @@ ("H" :> "h") @@
  ("I" :> "i") @@ ("J" :> "j") @@ ("K" :> "k") @@ ("L" :> "l") @@
  ("M" :> "m") @@ ("N" :> "n") @@ ("O" :> "o") @@ ("P" :> "p") @@
  ("Q" :> "q") @@ ("R" :> "r") @@ ("S" :> "s") @@ ("T" :> "t") @@
  ("U" :> "u") @@ ("V" :> "v") @@ ("W" :> "w") @@ ("X" :> "x") @@
  ("Y" :> "y") @@ ("Z" :> "z")

\* s.lower()
Lower(s) ==
  [j \in 1..Len(s) |-> IF s[j] \in DOMAIN LowerOf THEN LowerOf[s[j]] ELSE s[j]]

\* s.strip()
Strip(s) ==
  LET solid == {j \in 1..Len(s) : s[j] \notin Whitespace}
  IN  IF solid = {} THEN <<>>
      ELSE SubSeq(s, MinOf(solid), CHOOSE j \in solid : \A h \in solid : h <= j)

\* s.rstrip()
RStrip(s) ==
  LET solid == {j \in 1..Len(s) : s[j] \notin Whitespace}
  IN  IF solid = {} THEN <<>>
      ELSE SubSeq(s, 1, CHOOSE j \in solid : \A h \in solid : h <= j)

\* re.sub(r'\s+', ' ', s)
RECURSIVE CollapseSpacesFrom(_, _)
CollapseSpacesFrom(s, p) ==
  LET q == NextIn(s, Whitespace, p)
  IN  IF q >= Len(s) THEN Slice(s, p, Len(s))
      ELSE Slice(s, p, q) \o <<" ">>
             \o CollapseSpacesFrom(s, SkipClass(s, Whitespace, q))

CollapseSpaces(s) == CollapseSpacesFrom(s, 0)

\* re.sub(r'\s+', '', s)
RemoveSpaces(s) == SelectSeq(s, LAMBDA c : c \notin Whitespace)

(***************************************************************************)
(* The symbol table.                                                       *)
(***************************************************************************)
\* the default_mappings literal of load_mappings
default_mappings ==
  <<
     << <<"\\", "a", "l", "p", "h", "a">>, <<"U+03B1">> >>,
     << <<"\\", "b", "e", "t", "a">>, <<"U+03B2">> >>,
     << <<"\\", "g", "a", "m", "m", "a">>, <<"U+03B3">> >>,
     << <<"\\", "d", "e", "l", "t", "a">>, <<"U+03B4">> >>,
     << <<"\\", "e", "p", "s", "i", "l", "o", "n">>, <<"U+03B5">> >>,
     << <<"\\", "v", "a", "r", "e", "p", "s", "i", "l", "o", "n">>, <<"U+03B5">> >>,
     << <<"\\", "z", "e", "t", "a">>, <<"U+03B6">> >>,
     << <<"\\", "e", "t", "a">>, <<"U+03B7">> >>,
     << <<"\\", "t", "h", "e", "t", "a">>, <<"U+03B8">> >>,
     << <<"\\", "v", "a", "r", "t", "h", "e", "t", "a">>, <<"U+03D1">> >>,
     << <<"\\", "i", "o", "t", "a">>, <<"U+03B9">> >>,
     << <<"\\", "k", "a", "p", "p", "a">>, <<"U+03BA">> >>,
     << <<"\\", "l", "a", "m", "b", "d", "a">>, <<"U+03BB">> >>,
     << <<"\\", "m", "u">>, <<"U+03BC">> >>,
     << <<"\\", "n", "u">>, <<"U+03BD">> >>,
     << <<"\\", "x", "i">>, <<"U+03BE">> >>,
     << <<"\\", "p", "i">>, <<"U+03C0">> >>,
     << <<"\\", "v", "a", "r", "p", "i">>, <<"U+03D6">> >>,
     << <<"\\", "r", "h", "o">>, <<"U+03C1">> >>,
     << <<"\\", "v", "a", "r", "r", "h", "o">>, <<"U+03F1">> >>,
     << <<"\\", "s", "i", "g", "m", "a">>, <<"U+03C3">> >>,
     << <<"\\", "v", "a", "r", "s", "i", "g", "m", "a">>, <<"U+03C2">> >>,
     << <<"\\", "t", "a", "u">>, <<"U+03C4">> >>,
     << <<"\\", "u", "p", "s", "i", "l", "o", "n">>, <<"U+03C5">> >>,
     << <<"\\", "p", "h", "i">>, <<"U+03C6">> >>,
     << <<"\\", "v", "a", "r", "p", "h", "i">>, <<"U+03C6">> >>,
     << <<"\\", "c", "h", "i">>, <<"U+03C7">> >>,
     << <<"\\", "p", "s", "i">>, <<"U+03C8">> >>,
     << <<"\\", "o", "m", "e", "g", "a">>, <<"U+03C9">> >>,
     << <<"\\", "G", "a", "m", "m", "a">>, <<"U+0393">> >>,
     << <<"\\", "D", "e", "l", "t", "a">>, <<"U+0394">> >>,
     << <<"\\", "T", "h", "e", "t", "a">>, <<"U+0398">> >>,
     << <<"\\", "L", "a", "m", "b", "d", "a">>, <<"U+039B">> >>,
     << <<"\\", "X", "i">>, <<"U+039E">> >>,
     << <<"\\", "P", "i">>, <<"U+03A0">> >>,
     << <<"\\", "S", "i", "g", "m", "a">>, <<"U+03A3">> >>,
     << <<"\\", "U", "p", "s", "i", "l", "o", "n">>, <<"U+03A5">> >>,
     << <<"\\", "P", "h", "i">>, <<"U+03A6">> >>,
     << <<"\\", "P", "s", "i">>, <<"U+03A8">> >>,
     << <<"\\", "O", "m", "e", "g", "a">>, <<"U+03A9">> >>,
     << <<"\\", "p", "m">>, <<"U+00B1">> >>,
     << <<"\\", "m", "p">>, <<"U+2213">> >>,
     << <<"\\", "t", "i", "m", "e", "s">>, <<"U+00D7">> >>,
     << <<"\\", "d", "i", "v">>, <<"U+00F7">> >>,
     << <<"\\", "c", "d", "o", "t">>, <<"U+00B7">> >>,
     << <<"\\", "a", "s", "t">>, <<"U+2217">> >>,
     << <<"\\", "s", "t", "a", "r">>, <<"U+22C6">> >>,
     << <<"\\", "c", "i", "r", "c">>, <<"U+2218">> >>,
     << <<"\\", "b", "u", "l", "l", "e", "t">>, <<"U+2022">> >>,
     << <<"\\", "c", "a", "p">>, <<"U+2229">> >>,
     << <<"\\", "c", "u", "p">>, <<"U+222A">> >>,
     << <<"\\", "s", "q", "c", "a", "p">>, <<"U+2293">> >>,
     << <<"\\", "s", "q", "c", "u", "p">>, <<"U+2294">> >>,
     << <<"\\", "v", "e", "e">>, <<"U+2228">> >>,
     << <<"\\", "w", "e", "d", "g", "e">>, <<"U+2227">> >>,
     << <<"\\", "s", "e", "t", "m", "i", "n", "u", "s">>, <<"U+2216">> >>,
     << <<"\\", "w", "r">>, <<"U+2240">> >>,
     << <<"\\", "d", "i", "a", "m", "o", "n", "d">>, <<"U+22C4">> >>,
     << <<"\\", "b", "i", "g", "t", "r", "i", "a", "n", "g", "l", "e", "u", "p">>, <<"U+25B3">> >>,
     << <<"\\", "b", "i", "g", "t", "r", "i", "a", "n", "g", "l", "e", "d", "o", "w", "n">>, <<"U+25BD">> >>,
     << <<"\\", "t", "r", "i", "a", "n", "g", "l", "e", "l", "e", "f", "t">>, <<"U+25C1">> >>,
     << <<"\\", "t", "r", "i", "a", "n", "g", "l", "e", "r", "i", "g", "h", "t">>, <<"U+25B7">> >>,
     << <<"\\", "l", "h", "d">>, <<"U+22B2">> >>,
     << <<"\\", "r", "h", "d">>, <<"U+22B3">> >>,
     << <<"\\", "u", "n", "l", "h", "d">>, <<"U+22B4">> >>,
     << <<"\\", "u", "n", "r", "h", "d">>, <<"U+22B5">> >>,
     << <<"\\", "o", "p", "l", "u", "s">>, <<"U+2295">> >>,
     << <<"\\", "o", "m", "i", "n", "u", "s">>, <<"U+2296">> >>,
     << <<"\\", "o", "t", "i", "m", "e", "s">>, <<"U+2297">> >>,
     << <<"\\", "o", "s", "l", "a", "s", "h">>, <<"U+2298">> >>,
     << <<"\\", "o", "d", "o", "t">>, <<"U+2299">> >>,
     << <<"\\", "b", "i", "g", "c", "i", "r", "c">>, <<"U+25EF">> >>,
     << <<"\\", "d", "a", "g", "g", "e", "r">>, <<"U+2020">> >>,
     << <<"\\", "d", "d", "a", "g", "g", "e", "r">>, <<"U+2021">> >>,
     << <<"\\", "a", "m", "a", "l", "g">>, <<"U+2A3F">> >>,
     << <<"\\", "l", "e", "q">>, <<"U+2264">> >>,
     << <<"\\", "l", "e">>, <<"U+2264">> >>,
     << <<"\\", "g", "e", "q">>, <<"U+2265">> >>,
     << <<"\\", "g", "e">>, <<"U+2265">> >>,
     << <<"\\", "e", "q", "u", "i", "v">>, <<"U+2261">> >>,
     << <<"\\", "m", "o", "d", "e", "l", "s">>, <<"U+22A8">> >>,
     << <<"\\", "p", "r", "e", "c">>, <<"U+227A">> >>,
     << <<"\\", "s", "u", "c", "c">>, <<"U+227B">> >>,
     << <<"\\", "s", "i", "m">>, <<"U+223C">> >>,
     << <<"\\", "p", "e", "r", "p">>, <<"U+22A5">> >>,
     << <<"\\", "p", "r", "e", "c", "e", "q">>, <<"U+2AAF">> >>,
     << <<"\\", "s", "u", "c", "c", "e", "q">>, <<"U+2AB0">> >>,
     << <<"\\", "s", "i", "m", "e", "q">>, <<"U+2243">> >>,
     << <<"\\", "m", "i", "d">>, <<"U+2223">> >>,
     << <<"\\", "l", "l">>, <<"U+226A">> >>,
     << <<"\\", "g", "g">>, <<"U+226B">> >>,
     << <<"\\", "a", "s", "y", "m", "p">>, <<"U+224D">> >>,
     << <<"\\", "p", "a", "r", "a", "l", "l", "e", "l">>, <<"U+2225">> >>,
     << <<"\\", "s", "u", "b", "s", "e", "t">>, <<"U+2282">> >>,
     << <<"\\", "s", "u", "p", "s", "e", "t">>, <<"U+2283">> >>,
     << <<"\\", "a", "p", "p", "r", "o", "x">>, <<"U+2248">> >>,
     << <<"\\", "b", "o", "w", "t", "i", "e">>, <<"U+22C8">> >>,
     << <<"\\", "s", "u", "b", "s", "e", "t", "e", "q">>, <<"U+2286">> >>,
     << <<"\\", "s", "u", "p", "s", "e", "t", "e", "q">>, <<"U+2287">> >>,
     << <<"\\", "c", "o", "n", "g">>, <<"U+2245">> >>,
     << <<"\\", "s", "q", "s", "u", "b", "s", "e", "t">>, <<"U+228F">> >>,
     << <<"\\", "s", "q", "s", "u", "p", "s", "e", "t">>, <<"U+2290">> >>,
     << <<"\\", "n", "e", "q">>, <<"U+2260">> >>,
     << <<"\\", "n", "e">>, <<"U+2260">> >>,
     << <<"\\", "s", "m", "i", "l", "e">>, <<"U+2323">> >>,
     << <<"\\", "s", "q", "s", "u", "b", "s", "e", "t", "e", "q">>, <<"U+2291">> >>,
     << <<"\\", "s", "q", "s", "u", "p", "s", "e", "t", "e", "q">>, <<"U+2292">> >>,
     << <<"\\", "d", "o", "t", "e", "q">>, <<"U+2250">> >>,
     << <<"\\", "f", "r", "o", "w", "n">>, <<"U+2322">> >>,
     << <<"\\", "i", "n">>, <<"U+2208">> >>,
     << <<"\\", "n", "i">>, <<"U+220B">> >>,
     << <<"\\", "p", "r", "o", "p", "t", "o">>, <<"U+221D">> >>,
     << <<"\\", "v", "d", "a", "s", "h">>, <<"U+22A2">> >>,
     << <<"\\", "d", "a", "s", "h", "v">>, <<"U+22A3">> >>,
     << <<"\\", "l", "e", "f", "t", "a", "r", "r", "o", "w">>, <<"U+2190">> >>,
     << <<"\\", "g", "e", "t", "s">>, <<"U+2190">> >>,
     << <<"\\", "r", "i", "g", "h", "t", "a", "r", "r", "o", "w">>, <<"U+2192">> >>,
     << <<"\\", "t", "o">>, <<"U+2192">> >>,
     << <<"\\", "l", "e", "f", "t", "r", "i", "g", "h", "t", "a", "r", "r", "o", "w">>, <<"U+2194">> >>,
     << <<"\\", "u", "p", "a", "r", "r", "o", "w">>, <<"U+2191">> >>,
     << <<"\\", "d", "o", "w", "n", "a", "r", "r", "o", "w">>, <<"U+2193">> >>,
     << <<"\\", "u", "p", "d", "o", "w", "n", "a", "r", "r", "o", "w">>, <<"U+2195">> >>,
     << <<"\\", "L", "e", "f", "t", "a", "r", "r", "o", "w">>, <<"U+21D0">> >>,
     << <<"\\", "R", "i", "g", "h", "t", "a", "r", "r", "o", "w">>, <<"U+21D2">> >>,
     << <<"\\", "L", "e", "f", "t", "r", "i", "g", "h", "t", "a", "r", "r", "o", "w">>, <<"U+21D4">> >>,
     << <<"\\", "U", "p", "a", "r", "r", "o", "w">>, <<"U+21D1">> >>,
     << <<"\\", "D", "o", "w", "n", "a", "r", "r", "o", "w">>, <<"U+21D3">> >>,
     << <<"\\", "U", "p", "d", "o", "w", "n", "a", "r", "r", "o", "w">>, <<"U+21D5">> >>,
     << <<"\\", "m", "a", "p", "s", "t", "o">>, <<"U+21A6">> >>,
     << <<"\\", "l", "o", "n", "g", "m", "a", "p", "s", "t", "o">>, <<"U+27FC">> >>,
     << <<"\\", "h", "o", "o", "k", "l", "e", "f", "t", "a", "r", "r", "o", "w">>, <<"U+21A9">> >>,
     << <<"\\", "h", "o", "o", "k", "r", "i", "g", "h", "t", "a", "r", "r", "o", "w">>, <<"U+21AA">> >>,
     << <<"\\", "l", "e", "f", "t", "h", "a", "r", "p", "o", "o", "n", "u", "p">>, <<"U+21BC">> >>,
     << <<"\\", "l", "e", "f", "t", "h", "a", "r", "p", "o", "o", "n", "d", "o", "w", "n">>, <<"U+21BD">> >>,
     << <<"\\", "r", "i", "g", "h", "t", "h", "a", "r", "p", "o", "o", "n", "u", "p">>, <<"U+21C0">> >>,
     << <<"\\", "r", "i", "g", "h", "t", "h", "a", "r", "p", "o", "o", "n", "d", "o", "w", "n">>, <<"U+21C1">> >>,
     << <<"\\", "r", "i", "g", "h", "t", "l", "e", "f", "t", "h", "a", "r", "p", "o", "o", "n", "s">>, <<"U+21CC">> >>,
     << <<"\\", "i", "f", "f">>, <<"U+27FA">> >>,
     << <<"\\", "l", "d", "o", "t", "s">>, <<"U+2026">> >>,
     << <<"\\", "c", "d", "o", "t", "s">>, <<"U+22EF">> >>,
     << <<"\\", "v", "d", "o", "t", "s">>, <<"U+22EE">> >>,
     << <<"\\", "d", "d", "o", "t", "s">>, <<"U+22F1">> >>,
     << <<"\\", "a", "l", "e", "p", "h">>, <<"U+2135">> >>,
     << <<"\\", "p", "r", "i", "m", "e">>, <<"U+2032">> >>,
     << <<"\\", "f", "o", "r", "a", "l", "l">>, <<"U+2200">> >>,
     << <<"\\", "e", "x", "i", "s", "t", "s">>, <<"U+2203">> >>,
     << <<"\\", "m", "h", "o">>, <<"U+2127">> >>,
     << <<"\\", "p", "a", "r", "t", "i", "a", "l">>, <<"U+2202">> >>,
     << <<"\\", "e", "m", "p", "t", "y", "s", "e", "t">>, <<"U+2205">> >>,
     << <<"\\", "i", "n", "f", "t", "y">>, <<"U+221E">> >>,
     << <<"\\", "n", "a", "b", "l", "a">>, <<"U+2207">> >>,
     << <<"\\", "t", "r", "i", "a", "n", "g", "l", "e">>, <<"U+25B3">> >>,
     << <<"\\", "B", "o", "x">>, <<"U+25A1">> >>,
     << <<"\\", "D", "i", "a", "m", "o", "n", "d">>, <<"U+25CA">> >>,
     << <<"\\", "b", "o", "t">>, <<"U+22A5">> >>,
     << <<"\\", "t", "o", "p">>, <<"U+22A4">> >>,
     << <<"\\", "a", "n", "g", "l", "e">>, <<"U+2220">> >>,
     << <<"\\", "s", "u", "r", "d">>, <<"U+221A">> >>,
     << <<"\\", "d", "i", "a", "m", "o", "n", "d", "s", "u", "i", "t">>, <<"U+2666">> >>,
     << <<"\\", "h", "e", "a", "r", "t", "s", "u", "i", "t">>, <<"U+2665">> >>,
     << <<"\\", "c", "l", "u", "b", "s", "u", "i", "t">>, <<"U+2663">> >>,
     << <<"\\", "s", "p", "a", "d", "e", "s", "u", "i", "t">>, <<"U+2660">> >>,
     << <<"\\", "n", "e", "g">>, <<"U+00AC">> >>,
     << <<"\\", "l", "n", "o", "t">>, <<"U+00AC">> >>,
     << <<"\\", "f", "l", "a", "t">>, <<"U+266D">> >>,
     << <<"\\", "n", "a", "t", "u", "r", "a", "l">>, <<"U+266E">> >>,
     << <<"\\", "s", "h", "a", "r", "p">>, <<"U+266F">> >>,
     << <<"\\", "s", "u", "m">>, <<"U+2211">> >>,
     << <<"\\", "p", "r", "o", "d">>, <<"U+220F">> >>,
     << <<"\\", "c", "o", "p", "r", "o", "d">>, <<"U+2210">> >>,
     << <<"\\", "i", "n", "t">>, <<"U+222B">> >>,
     << <<"\\", "o", "i", "n", "t">>, <<"U+222E">> >>,
     << <<"\\", "b", "i", "g", "c", "a", "p">>, <<"U+22C2">> >>,
     << <<"\\", "b", "i", "g", "c", "u", "p">>, <<"U+22C3">> >>,
     << <<"\\", "b", "i", "g", "s", "q", "c", "u", "p">>, <<"U+2A06">> >>,
     << <<"\\", "b", "i", "g", "v", "e", "e">>, <<"U+22C1">> >>,
     << <<"\\", "b", "i", "g", "w", "e", "d", "g", "e">>, <<"U+22C0">> >>,
     << <<"\\", "b", "i", "g", "o", "d", "o", "t">>, <<"U+2A00">> >>,
     << <<"\\", "b", "i", "g", "o", "t", "i", "m", "e", "s">>, <<"U+2A02">> >>,
     << <<"\\", "b", "i", "g", "o", "p", "l", "u", "s">>, <<"U+2A01">> >>,
     << <<"\\", "b", "i", "g", "u", "p", "l", "u", "s">>, <<"U+2A04">> >>,
     << <<"x", "^", "2">>, <<"x", "U+00B2">> >>,
     << <<"x", "^", "3">>, <<"x", "U+00B3">> >>,
     << <<"x", "^", "n">>, <<"x", "U+207F">> >>,
     << <<"x", "_", "i">>, <<"x", "U+1D62">> >>,
     << <<"x", "_", "0">>, <<"x", "U+2080">> >>,
     << <<"x", "_", "1">>, <<"x", "U+2081">> >>,
     << <<"x", "_", "2">>, <<"x", "U+2082">> >>,
     << <<"x", "_", "n">>, <<"x", "U+2099">> >>,
     << <<"a", "_", "i">>, <<"a", "U+1D62">> >>,
     << <<"a", "_", "n">>, <<"a", "U+2099">> >>,
     << <<"f", "(", "x", ")">>, <<"f", "(", "x", ")">> >>,
     << <<"g", "(", "x", ")">>, <<"g", "(", "x", ")">> >>,
     << <<"h", "(", "x", ")">>, <<"h", "(", "x", ")">> >>,
     << <<"F", "(", "x", ")">>, <<"F", "(", "x", ")">> >>,
     << <<"G", "(", "x", ")">>, <<"G", "(", "x", ")">> >>,
     << <<"H", "(", "x", ")">>, <<"H", "(", "x", ")">> >>,
     << <<"\\", "s", "u", "m", "_", "{", "i", "=", "1", "}", "^", "n">>, <<"U+2211", "U+1D62", "U+208C", "U+2081", "U+207F">> >>,
     << <<"\\", "s", "u", "m", "_", "{", "i", "=", "0", "}", "^", "n">>, <<"U+2211", "U+1D62", "U+208C", "U+2080", "U+207F">> >>,
     << <<"\\", "p", "r", "o", "d", "_", "{", "i", "=", "1", "}", "^", "n">>, <<"U+220F", "U+1D62", "U+208C", "U+2081", "U+207F">> >>,
     << <<"\\", "i", "n", "t", "_", "0", "^", "\\", "i", "n", "f", "t", "y">>, <<"U+222B", "U+2080", "^", "U+221E">> >>,
     << <<"\\", "i", "n", "t", "_", "{", "-", "\\", "i", "n", "f", "t", "y", "}", "^", "\\", "i", "n", "f", "t", "y">>, <<"U+222B", "U+208B", "U+221E", "^", "U+221E">> >>,
     << <<"\\", "i", "n", "t", "_", "a", "^", "b">>, <<"U+222B", "U+2090", "U+1D47">> >>,
     << <<"\\", "f", "r", "a", "c", "{", "1", "}", "{", "2", "}">>, <<"U+00BD">> >>,
     << <<"\\", "f", "r", "a", "c", "{", "1", "}", "{", "3", "}">>, <<"U+2153">> >>,
     << <<"\\", "f", "r", "a", "c", "{", "2", "}", "{", "3", "}">>, <<"U+2154">> >>,
     << <<"\\", "f", "r", "a", "c", "{", "1", "}", "{", "4", "}">>, <<"U+00BC">> >>,
     << <<"\\", "f", "r", "a", "c", "{", "3", "}", "{", "4", "}">>, <<"U+00BE">> >>,
     << <<"\\", "f", "r", "a", "c", "{", "1", "}", "{", "5", "}">>, <<"U+2155">> >>,
     << <<"\\", "f", "r", "a", "c", "{", "1", "}", "{", "6", "}">>, <<"U+2159">> >>,
     << <<"\\", "f", "r", "a", "c", "{", "1", "}", "{", "8", "}">>, <<"U+215B">> >>,
     << <<"\\", "f", "r", "a", "c", "{", "a", "}", "{", "b", "}">>, <<"a", "/", "b">> >>,
     << <<"\\", "f", "r", "a", "c", "{", "x", "}", "{", "y", "}">>, <<"x", "/", "y">> >>,
     << <<"\\", "s", "q", "r", "t", "{", "x", "}">>, <<"U+221A", "x">> >>,
     << <<"\\", "s", "q", "r", "t", "{", "2", "}">>, <<"U+221A", "2">> >>,
     << <<"\\", "s", "q", "r", "t", "{", "3", "}">>, <<"U+221A", "3">> >>,
     << <<"\\", "s", "q", "r", "t", "{", "n", "}">>, <<"U+221A", "n">> >>,
     << <<"e", "^", "x">>, <<"e", "U+02E3">> >>,
     << <<"e", "^", "{", "-", "x", "}">>, <<"e", "U+207B", "U+02E3">> >>,
     << <<"e", "^", "{", "i", "\\", "p", "i", "}">>, <<"e", "^", "(", "i", "U+03C0", ")">> >>,
     << <<"2", "^", "n">>, <<"2", "U+207F">> >>,
     << <<"1", "0", "^", "n">>, <<"1", "0", "U+207F">> >>,
     << <<"\\", "s", "i", "n", " ", "x">>, <<"s", "i", "n", " ", "x">> >>,
     << <<"\\", "c", "o", "s", " ", "x">>, <<"c", "o", "s", " ", "x">> >>,
     << <<"\\", "t", "a", "n", " ", "x">>, <<"t", "a", "n", " ", "x">> >>,
     << <<"\\", "c", "o", "t", " ", "x">>, <<"c", "o", "t", " ", "x">> >>,
     << <<"\\", "s", "e", "c", " ", "x">>, <<"s", "e", "c", " ", "x">> >>,
     << <<"\\", "c", "s", "c", " ", "x">>, <<"c", "s", "c", " ", "x">> >>,
     << <<"\\", "a", "r", "c", "s", "i", "n", " ", "x">>, <<"a", "r", "c", "s", "i", "n", " ", "x">> >>,
     << <<"\\", "a", "r", "c", "c", "o", "s", " ", "x">>, <<"a", "r", "c", "c", "o", "s", " ", "x">> >>,
     << <<"\\", "a", "r", "c", "t", "a", "n", " ", "x">>, <<"a", "r", "c", "t", "a", "n", " ", "x">> >>,
     << <<"\\", "s", "i", "n", "h", " ", "x">>, <<"s", "i", "n", "h", " ", "x">> >>,
     << <<"\\", "c", "o", "s", "h", " ", "x">>, <<"c", "o", "s", "h", " ", "x">> >>,
     << <<"\\", "t", "a", "n", "h", " ", "x">>, <<"t", "a", "n", "h", " ", "x">> >>,
     << <<"\\", "l", "o", "g", " ", "x">>, <<"l", "o", "g", " ", "x">> >>,
     << <<"\\", "l", "n", " ", "x">>, <<"l", "n", " ", "x">> >>,
     << <<"\\", "l", "o", "g", "_", "2", " ", "x">>, <<"l", "o", "g", "U+2082", " ", "x">> >>,
     << <<"\\", "l", "o", "g", "_", "{", "1", "0", "}", " ", "x">>, <<"l", "o", "g", "U+2081", "U+2080", " ", "x">> >>,
     << <<"\\", "l", "g", " ", "x">>, <<"l", "g", " ", "x">> >>,
     << <<"A", " ", "\\", "t", "i", "m", "e", "s", " ", "B">>, <<"A", " ", "U+00D7", " ", "B">> >>,
     << <<"A", " ", "\\", "c", "d", "o", "t", " ", "B">>, <<"A", " ", "U+00B7", " ", "B">> >>,
     << <<"a", " ", "\\", "l", "e", "q", " ", "b">>, <<"a", " ", "U+2264", " ", "b">> >>,
     << <<"a", " ", "\\", "g", "e", "q", " ", "b">>, <<"a", " ", "U+2265", " ", "b">> >>,
     << <<"a", " ", "\\", "n", "e", "q", " ", "b">>, <<"a", " ", "U+2260", " ", "b">> >>,
     << <<"a", " ", "\\", "a", "p", "p", "r", "o", "x", " ", "b">>, <<"a", " ", "U+2248", " ", "b">> >>,
     << <<"a", " ", "\\", "e", "q", "u", "i", "v", " ", "b">>, <<"a", " ", "U+2261", " ", "b">> >>,
     << <<"a", " ", "\\", "i", "n", " ", "B">>, <<"a", " ", "U+2208", " ", "B">> >>,
     << <<"a", " ", "\\", "n", "o", "t", "i", "n", " ", "B">>, <<"a", " ", "U+2209", " ", "B">> >>,
     << <<"A", " ", "\\", "s", "u", "b", "s", "e", "t", " ", "B">>, <<"A", " ", "U+2282", " ", "B">> >>,
     << <<"A", " ", "\\", "s", "u", "p", "s", "e", "t", " ", "B">>, <<"A", " ", "U+2283", " ", "B">> >>,
     << <<"A", " ", "\\", "s", "u", "b", "s", "e", "t", "e", "q", " ", "B">>, <<"A", " ", "U+2286", " ", "B">> >>,
     << <<"A", " ", "\\", "s", "u", "p", "s", "e", "t", "e", "q", " ", "B">>, <<"A", " ", "U+2287", " ", "B">> >>,
     << <<"A", " ", "\\", "c", "u", "p", " ", "B">>, <<"A", " ", "U+222A", " ", "B">> >>,
     << <<"A", " ", "\\", "c", "a", "p", " ", "B">>, <<"A", " ", "U+2229", " ", "B">> >>,
     << <<"A", " ", "\\", "s", "e", "t", "m", "i", "n", "u", "s", " ", "B">>, <<"A", " ", "U+2216", " ", "B">> >>
  >>

\* formula in table
HasKey(table, key) == \E j \in 1..Len(table) : table[j][1] = key

\* table[formula]
Lookup(table, key) ==
  table[CHOOSE j \in 1..Len(table) : table[j][1] = key][2]

\* table[key] = val on a table that kept one entry per assignment
AppendEntry(table, key, val) == Append(table, <<key, val>>)

\* table[key] = val: a present key keeps its place, a new key goes last
Upsert(table, key, val) ==
  IF HasKey(table, key)
  THEN [j \in 1..Len(table) |->
          IF table[j][1] = key THEN <<key, val>> ELSE table[j]]
  ELSE Append(table, <<key, val>>)

\* table.update(other)
RECURSIVE Update(_, _)
Update(table, other) ==
  IF other = <<>> THEN table
  ELSE Update(Upsert(table, other[1][1], other[1][2]), Tail(other))

\* The mapping file on disk: [state, entries]. state is
\*   "absent"       no such path
\*   "unreadable"   open raises IOError
\*   "undecodable"  the bytes are not UTF-8: json.load raises
\*                  UnicodeDecodeError
\*   "malformed"    json.load raises JSONDecodeError (the empty file too)
\*   "ok"           json.load gives the mapping whose items are entries
\*   "array"        json.load gives a list of two-element lists, entries
\*   "scalar"       json.load gives null, a number or a truth value
load_mappings(file) ==
  IF file.state \in {"ok", "array"} THEN Update(default_mappings, file.entries)
  ELSE default_mappings

\* the warning load_mappings prints: the except clause names
\* json.JSONDecodeError and IOError
load_warns(file) == file.state \in {"malformed", "unreadable"}

\* the exception that leaves load_mappings, "none" if it returns
load_raises(file) ==
  IF file.state = "undecodable" THEN "UnicodeDecodeError"
  ELSE IF file.state = "scalar" THEN "TypeError"
  ELSE "none"

\* the file json.dump leaves behind
save_mappings(table) == [state |-> "ok", entries |-> table]

(***************************************************************************)
(* Heading scanner.                                                        *)
(***************************************************************************)
SECTION == <<"s", "e", "c", "t", "i", "o", "n">>
SUB == <<"s", "u", "b">>
TEXORPDFSTRING ==
  <<BS, "t", "e", "x", "o", "r", "p", "d", "f", "s", "t", "r", "i", "n", "g">>

\* re.match(r'^\s*\\[a-z]+\s*\{', line): any command in the place of
\* \section and \subsection
IsCommandLine(s) ==
  LET p == SkipClass(s, Whitespace, 0)
      q == SkipClass(s, Letters, p + 1)
      r == SkipClass(s, Whitespace, q)
  IN  StartsAt(s, <<BS>>, p) /\ q > p + 1 /\ r < Len(s) /\ s[r + 1] = "{"

\* re.match(r'^\s*\\(sub)?section\s*\{', line)
IsHeadingLine(s) ==
  LET p == SkipClass(s, Whitespace, 0)
      AfterName(q) == LET r == SkipClass(s, Whitespace, q)
                      IN  r < Len(s) /\ s[r + 1] = "{"
  IN  /\ StartsAt(s, <<BS>>, p)
      /\ \/ /\ StartsAt(s, SUB \o SECTION, p + 1)
            /\ AfterName(p + 1 + Len(SUB) + Len(SECTION))
         \/ /\ StartsAt(s, SECTION, p + 1)
            /\ AfterName(p + 1 + Len(SECTION))

\* offset of the first "$" at or after p, Len(s) if there is none
NextDollar(s, p) == NextIn(s, {"$"}, p)

\* end() of the match of r'\$([^$]+)\$' that starts at p, -1 if there is none
MathEnd(s, p) ==
  LET q == NextDollar(s, p + 1)
  IN  IF p < Len(s) /\ s[p + 1] = "$" /\ q < Len(s) /\ q > p + 1
      THEN q + 1 ELSE -1

\* list(re.finditer(r'\$([^$]+)\$', line)), each match as its span()
RECURSIVE FindMathFrom(_, _)
FindMathFrom(s, p) ==
  LET at == {q \in p..(Len(s) - 1) : MathEnd(s, q) >= 0}
  IN  IF at = {} THEN <<>>
      ELSE <<[start |-> MinOf(at), end |-> MathEnd(s, MinOf(at))]>>
             \o FindMathFrom(s, MathEnd(s, MinOf(at)))

FindMath(s) == FindMathFrom(s, 0)

\* match.group(0) and match.group(1)
FullFormula(s, m) == Slice(s, m.start, m.end)
FormulaContent(s, m) == Slice(s, m.start + 1, m.end - 1)

\* end() of the match of r'\\texorpdfstring\s*\{' that starts at p, -1 if
\* there is none
TexorpdfEnd(s, p) ==
  LET q == SkipClass(s, Whitespace, p + Len(TEXORPDFSTRING))
  IN  IF StartsAt(s, TEXORPDFSTRING, p) /\ q < Len(s) /\ s[q + 1] = "{"
      THEN q + 1 ELSE -1

\* end() of each match of r'\\texorpdfstring\s*\{' in s, left to right
RECURSIVE TexorpdfEndsFrom(_, _)
TexorpdfEndsFrom(s, p) ==
  LET at == {q \in p..(Len(s) - 1) : TexorpdfEnd(s, q) >= 0}
  IN  IF at = {} THEN <<>>
      ELSE <<TexorpdfEnd(s, MinOf(at))>>
             \o TexorpdfEndsFrom(s, TexorpdfEnd(s, MinOf(at)))

TexorpdfEnds(s) == TexorpdfEndsFrom(s, 0)

\* The while loop of is_inside_texorpdfstring, entered with pos, brace_count
\* and first_arg_end; its value is first_arg_end when the loop ends. A turn
\* at a character that is no brace changes pos alone, so the loop is taken
\* from brace to brace.
RECURSIVE BraceLoop(_, _, _, _)
BraceLoop(s, pos, brace_count, first_arg_end) ==
  LET b == NextIn(s, {"{", "}"}, pos)
  IN  IF b < Len(s) /\ brace_count > 0
      THEN IF s[b + 1] = "{"
           THEN BraceLoop(s, b + 1, brace_count + 1, first_arg_end)
           ELSE BraceLoop(s, b + 1, brace_count - 1,
                          IF brace_count - 1 = 0 /\ first_arg_end = -1
                          THEN b ELSE first_arg_end)
      ELSE first_arg_end

\* is_inside_texorpdfstring with texorpdf_matches[0] in the place of
\* texorpdf_matches[-1]: the first opener of the line gates the decision
is_inside_first_opener(s, match_start) ==
  LET before_match == Slice(s, 0, match_start)
      texorpdf_matches == TexorpdfEnds(before_match)
  IN  IF texorpdf_matches = <<>> THEN FALSE
      ELSE LET start_pos == texorpdf_matches[1]
               first_arg_end == BraceLoop(s, start_pos, 1, -1)
           IN  start_pos <= match_start /\ match_start <= first_arg_end

is_inside_texorpdfstring(s, match_start) ==
  LET before_match == Slice(s, 0, match_start)
      texorpdf_matches == TexorpdfEnds(before_match)
  IN  IF texorpdf_matches = <<>> THEN FALSE
      ELSE LET start_pos == texorpdf_matches[Len(texorpdf_matches)]
               first_arg_end == BraceLoop(s, start_pos, 1, -1)
           IN  start_pos <= match_start /\ match_start <= first_arg_end

(***************************************************************************)
(* Transliteration engine.                                                 *)
(***************************************************************************)
\* len of the longest key, 0 for an empty table
MaxKeyLen(table) ==
  LET lens == {Len(table[j][1]) : j \in 1..Len(table)} \cup {0}
  IN  CHOOSE m \in lens : \A n \in lens : n <= m

\* the entries with keys of length n and shorter, longest key first, equal
\* lengths in table order (sorted is stable)
RECURSIVE SortedFrom(_, _)
SortedFrom(table, n) ==
  IF n < 0 THEN <<>>
  ELSE SelectSeq(table, LAMBDA e : Len(e[1]) = n) \o SortedFrom(table, n - 1)

\* self.math_mappings.items() as it is, not sorted
insertion_order(table) == table

\* sorted(self.math_mappings.items(), key=lambda x: len(x[0]), reverse=True)
sorted_mappings(table) == SortedFrom(table, MaxKeyLen(table))

\* whether re.escape(latex_cmd) + r'(?![a-zA-Z])' matches at p
CommandAt(s, latex_cmd, p) ==
  /\ StartsAt(s, latex_cmd, p)
  /\ ~ (p + Len(latex_cmd) < Len(s) /\ s[p + Len(latex_cmd) + 1] \in Letters)

\* re.sub(re.escape(latex_cmd) + r'(?![a-zA-Z])', unicode_repr, s)
RECURSIVE SubCommandFrom(_, _, _, _)
SubCommandFrom(s, latex_cmd, repl, p) ==
  LET at == {q \in p..(Len(s) - Len(latex_cmd)) : CommandAt(s, latex_cmd, q)}
  IN  IF at = {} THEN Slice(s, p, Len(s))
      ELSE Slice(s, p, MinOf(at)) \o repl
             \o SubCommandFrom(s, latex_cmd, repl, MinOf(at) + Len(latex_cmd))

SubCommand(s, latex_cmd, repl) == SubCommandFrom(s, latex_cmd, repl, 0)

\* The escapes of a replacement template that stand for one character:
\* \a \b \f \n \r \t \v and the doubled backslash
TemplateEscapes ==
  ("a" :> "U+0007") @@ ("b" :> "U+0008") @@ ("f" :> "U+000C") @@
  ("n" :> "\n") @@ ("r" :> "U+000D") @@ ("t" :> "\t") @@
  ("v" :> "U+000B") @@ (BS :> BS)

\* What re.sub makes of the string repl (unicode_repr) as the replacement of a
\* match of latex_cmd, read from offset p: [raises, text]. The pattern has no
\* group, so the whole match \g<0> is the only reference that is not an
\* error, and the match is latex_cmd itself. A backslash before a letter
\* that is no escape, before a digit from 1 to 9 and at the end raises
\* re.error; before any other character it stays with that character.
\* (Octal escapes of two or three digits and spellings of group 0 other than
\* <0> are left out: no rendering here has them.)
RECURSIVE TemplateFrom(_, _, _)
TemplateFrom(repl, latex_cmd, p) ==
  IF p >= Len(repl) THEN [raises |-> FALSE, text |-> <<>>]
  ELSE IF repl[p + 1] # BS
  THEN LET rest == TemplateFrom(repl, latex_cmd, p + 1)
       IN  [raises |-> rest.raises, text |-> <<repl[p + 1]>> \o rest.text]
  ELSE IF p + 1 >= Len(repl) THEN [raises |-> TRUE, text |-> <<>>]
  ELSE LET c == repl[p + 2]
       IN  IF c = "g"
           THEN IF StartsAt(repl, <<"<", "0", ">">>, p + 2)
                THEN LET rest == TemplateFrom(repl, latex_cmd, p + 5)
                     IN  [raises |-> rest.raises, text |-> latex_cmd \o rest.text]
                ELSE [raises |-> TRUE, text |-> <<>>]
           ELSE IF c \in DOMAIN TemplateEscapes
           THEN LET rest == TemplateFrom(repl, latex_cmd, p + 2)
                IN  [raises |-> rest.raises,
                     text |-> <<TemplateEscapes[c]>> \o rest.text]
           ELSE IF c = "0"
           THEN LET rest == TemplateFrom(repl, latex_cmd, p + 2)
                IN  [raises |-> rest.raises, text |-> <<"U+0000">> \o rest.text]
           ELSE IF c \in Letters \cup Digits
           THEN [raises |-> TRUE, text |-> <<>>]
           ELSE LET rest == TemplateFrom(repl, latex_cmd, p + 2)
                IN  [raises |-> rest.raises, text |-> <<BS, c>> \o rest.text]

\* the replacement re.sub writes for a match of latex_cmd
ExpandTemplate(repl, latex_cmd) ==
  IF HasChar(repl, BS)
  THEN TemplateFrom(repl, latex_cmd, 0).text
  ELSE repl

\* whether re.sub raises re.error for the entry: the template is compiled
\* whether or not the pattern matches
TemplateRaises(latex_cmd, repl) ==
  /\ latex_cmd # <<>> /\ latex_cmd[1] = BS
  /\ HasChar(repl, BS)
  /\ TemplateFrom(repl, latex_cmd, 0).raises

\* whether the for loop of _apply_known_mappings ends in re.error
apply_known_raises(table) ==
  \E n \in 1..Len(table) : TemplateRaises(table[n][1], table[n][2])

\* one turn of the for loop of _apply_known_mappings
ApplyMapping(s, latex_cmd, repl) ==
  IF latex_cmd # <<>> /\ latex_cmd[1] = BS
  THEN SubCommand(s, latex_cmd, ExpandTemplate(repl, latex_cmd))
  ELSE StrReplace(s, latex_cmd, repl)

\* The turns lo..hi of the for loop, in order. (Len(t) >= 0 is true of every
\* string: it is there for TLC to compute t before the later turns.)
RECURSIVE ApplyRange(_, _, _, _)
ApplyRange(s, sorted, lo, hi) ==
  IF lo > hi THEN s
  ELSE IF lo = hi THEN ApplyMapping(s, sorted[lo][1], sorted[lo][2])
       ELSE LET mid == (lo + hi) \div 2
                t == ApplyRange(s, sorted, lo, mid)
            IN  IF Len(t) >= 0 THEN ApplyRange(t, sorted, mid + 1, hi) ELSE t

_apply_known_mappings(table, text) ==
  LET sorted == sorted_mappings(table)
  IN  ApplyRange(text, sorted, 1, Len(sorted))

\* Offset of the "}" that ends the text [^{}]*(?:\{[^{}]*\}[^{}]*)* matches
\* from p, -1 if it matches no text that a "}" follows. depth is 1 inside an
\* inner brace pair.
RECURSIVE BraceArgEnd(_, _, _)
BraceArgEnd(s, p, depth) ==
  LET b == NextIn(s, {"{", "}"}, p)
  IN  IF b >= Len(s) THEN -1
      ELSE IF s[b + 1] = "{"
           THEN IF depth = 0 THEN BraceArgEnd(s, b + 1, 1) ELSE -1
           ELSE IF depth = 0 THEN b ELSE BraceArgEnd(s, b + 1, 0)

FRAC_CMD == <<BS, "f", "r", "a", "c", "{">>
SQRT_CMD == <<BS, "s", "q", "r", "t", "{">>

\* any(op in s for op in ops)
HasAny(s, ops) == \E j \in 1..Len(s) : s[j] \in ops

\* replace_frac
replace_frac(table, num, den) ==
  LET num_processed == RemoveSpaces(_apply_known_mappings(table, num))
      den_processed == RemoveSpaces(_apply_known_mappings(table, den))
      Paren(x) == IF HasAny(x, {"+", "-", "*"}) THEN <<"(">> \o x \o <<")">> ELSE x
  IN  Paren(num_processed) \o FRAC \o Paren(den_processed)

\* the match of the \frac pattern at p: [ok, num, den, end]
FracMatch(s, p) ==
  LET a == p + Len(FRAC_CMD)
      b == IF StartsAt(s, FRAC_CMD, p) THEN BraceArgEnd(s, a, 0) ELSE -1
      c == IF b >= 0 /\ b + 1 < Len(s) /\ s[b + 2] = "{"
           THEN BraceArgEnd(s, b + 2, 0) ELSE -1
  IN  IF c >= 0
      THEN [ok |-> TRUE, num |-> Slice(s, a, b), den |-> Slice(s, b + 2, c),
            end |-> c + 1]
      ELSE [ok |-> FALSE, num |-> <<>>, den |-> <<>>, end |-> p]

RECURSIVE HandleFractionsFrom(_, _, _)
HandleFractionsFrom(table, s, p) ==
  LET at == {q \in p..(Len(s) - 1) : FracMatch(s, q).ok}
  IN  IF at = {} THEN Slice(s, p, Len(s))
      ELSE LET m == FracMatch(s, MinOf(at))
           IN  Slice(s, p, MinOf(at)) \o replace_frac(table, m.num, m.den)
                 \o HandleFractionsFrom(table, s, m.end)

_handle_fractions(table, text) == HandleFractionsFrom(table, text, 0)

\* replace_sqrt
replace_sqrt(table, content) ==
  LET content_clean == RemoveSpaces(_apply_known_mappings(table, content))
  IN  IF HasAny(content_clean, {"+", "-", "*", "/"})
      THEN <<SQRT, "(">> \o content_clean \o <<")">>
      ELSE <<SQRT>> \o content_clean

\* offset of the "}" that ends the match of the \sqrt pattern at p, -1 if
\* there is none
SqrtArgEnd(s, p) ==
  IF StartsAt(s, SQRT_CMD, p) THEN BraceArgEnd(s, p + Len(SQRT_CMD), 0) ELSE -1

RECURSIVE HandleSquareRootsFrom(_, _, _)
HandleSquareRootsFrom(table, s, p) ==
  LET at == {q \in p..(Len(s) - 1) : SqrtArgEnd(s, q) >= 0}
  IN  IF at = {} THEN Slice(s, p, Len(s))
      ELSE LET b == SqrtArgEnd(s, MinOf(at))
           IN  Slice(s, p, MinOf(at))
                 \o replace_sqrt(table, Slice(s, MinOf(at) + Len(SQRT_CMD), b))
                 \o HandleSquareRootsFrom(table, s, b + 1)

_handle_square_roots(table, text) == HandleSquareRootsFrom(table, text, 0)

superscript_map ==
  ("0" :> "U+2070") @@ ("1" :> "U+00B9") @@ ("2" :> "U+00B2") @@
  ("3" :> "U+00B3") @@ ("4" :> "U+2074") @@ ("5" :> "U+2075") @@
  ("6" :> "U+2076") @@ ("7" :> "U+2077") @@ ("8" :> "U+2078") @@
  ("9" :> "U+2079") @@ ("+" :> "U+207A") @@ ("-" :> "U+207B") @@
  ("=" :> "U+207C") @@ ("(" :> "U+207D") @@ (")" :> "U+207E") @@
  ("n" :> "U+207F") @@ ("i" :> "U+2071") @@ ("x" :> "U+02E3")

subscript_map ==
  ("0" :> "U+2080") @@ ("1" :> "U+2081") @@ ("2" :> "U+2082") @@
  ("3" :> "U+2083") @@ ("4" :> "U+2084") @@ ("5" :> "U+2085") @@
  ("6" :> "U+2086") @@ ("7" :> "U+2087") @@ ("8" :> "U+2088") @@
  ("9" :> "U+2089") @@ ("+" :> "U+208A") @@ ("-" :> "U+208B") @@
  ("=" :> "U+208C") @@ ("(" :> "U+208D") @@ (")" :> "U+208E") @@
  ("a" :> "U+2090") @@ ("e" :> "U+2091") @@ ("h" :> "U+2095") @@
  ("i" :> "U+1D62") @@ ("j" :> "U+2C7C") @@ ("k" :> "U+2096") @@
  ("l" :> "U+2097") @@ ("m" :> "U+2098") @@ ("n" :> "U+2099") @@
  ("o" :> "U+2092") @@ ("p" :> "U+209A") @@ ("r" :> "U+1D63") @@
  ("s" :> "U+209B") @@ ("t" :> "U+209C") @@ ("u" :> "U+1D64") @@
  ("v" :> "U+1D65") @@ ("x" :> "U+2093")
\* a conversion that looks nothing up
keep_script(text_part, script_map) == text_part


\* convert_script
convert_script(text_part, script_map) ==
  [j \in 1..Len(text_part) |->
     IF text_part[j] \in DOMAIN script_map THEN script_map[text_part[j]]
     ELSE text_part[j]]

\* The match of mark + r'\{([^}]+)\}|' + mark + r'([a-zA-Z0-9])' at p:
\* [ok, content, end]
ScriptMatch(s, mark, p) ==
  LET q == NextIn(s, {"}"}, p + 2)
  IN  IF p + 1 < Len(s) /\ s[p + 1] = mark /\ s[p + 2] = "{"
         /\ q < Len(s) /\ q > p + 2
      THEN [ok |-> TRUE, content |-> Slice(s, p + 2, q), end |-> q + 1]
      ELSE IF p + 1 < Len(s) /\ s[p + 1] = mark
              /\ s[p + 2] \in Letters \cup Digits
           THEN [ok |-> TRUE, content |-> <<s[p + 2]>>, end |-> p + 2]
           ELSE [ok |-> FALSE, content |-> <<>>, end |-> p]

\* re.sub of that pattern with replace_superscript or replace_subscript
RECURSIVE SubScriptsFrom(_, _, _, _)
SubScriptsFrom(s, mark, script_map, p) ==
  LET at == {q \in p..(Len(s) - 1) : ScriptMatch(s, mark, q).ok}
  IN  IF at = {} THEN Slice(s, p, Len(s))
      ELSE LET m == ScriptMatch(s, mark, MinOf(at))
           IN  Slice(s, p, MinOf(at)) \o convert_script(m.content, script_map)
                 \o SubScriptsFrom(s, mark, script_map, m.end)

_handle_superscripts_subscripts(text) ==
  SubScriptsFrom(SubScriptsFrom(text, "^", superscript_map, 0),
                 "_", subscript_map, 0)

\* end() of the match of r'\\[a-zA-Z]+\*?' at p, -1 if there is none
CommandEnd(s, p) ==
  LET q == SkipClass(s, Letters, p + 1)
  IN  IF p < Len(s) /\ s[p + 1] = BS /\ q > p + 1
      THEN (IF q < Len(s) /\ s[q + 1] = "*" THEN q + 1 ELSE q)
      ELSE -1

\* re.sub(r'\\[a-zA-Z]+\*?', '', s)
RECURSIVE RemoveCommandsFrom(_, _)
RemoveCommandsFrom(s, p) ==
  LET at == {q \in p..(Len(s) - 1) : CommandEnd(s, q) >= 0}
  IN  IF at = {} THEN Slice(s, p, Len(s))
      ELSE Slice(s, p, MinOf(at))
             \o RemoveCommandsFrom(s, CommandEnd(s, MinOf(at)))

RemoveCommands(s) == RemoveCommandsFrom(s, 0)

\* offset of the "}" of the match of r'\{([^{}]*)\}' at p, -1 if there is none
BracePairEnd(s, p) ==
  LET q == NextIn(s, {"{", "}"}, p + 1)
  IN  IF p < Len(s) /\ s[p + 1] = "{" /\ q < Len(s) /\ s[q + 1] = "}"
      THEN q ELSE -1

\* re.sub(r'\{([^{}]*)\}', r'(\1)', s)
RECURSIVE BracesToParensFrom(_, _)
BracesToParensFrom(s, p) ==
  LET at == {q \in p..(Len(s) - 1) : BracePairEnd(s, q) >= 0}
  IN  IF at = {} THEN Slice(s, p, Len(s))
      ELSE LET q == BracePairEnd(s, MinOf(at))
           IN  Slice(s, p, MinOf(at)) \o <<"(">> \o Slice(s, MinOf(at) + 1, q)
                 \o <<")">> \o BracesToParensFrom(s, q + 1)

BracesToParens(s) == BracesToParensFrom(s, 0)

\* re.sub(r'^\s*[+\-*/=<>]\s*', '', s)
RemoveLeadingOperator(s) ==
  LET q == SkipClass(s, Whitespace, 0)
  IN  IF q < Len(s) /\ s[q + 1] \in Operators
      THEN Slice(s, SkipClass(s, Whitespace, q + 1), Len(s))
      ELSE s

\* re.sub(r'\s*[+\-*/=<>]\s*$', '', s), for s without a line break
RemoveTrailingOperator(s) ==
  LET t == RStrip(s)
  IN  IF t # <<>> /\ t[Len(t)] \in Operators
      THEN RStrip(SubSeq(t, 1, Len(t) - 1))
      ELSE s

\* end() of the match of r'([+\-*/=<>])\s*\1+' at p, -1 if there is none
DoubleOperatorEnd(s, p) ==
  LET q == SkipClass(s, Whitespace, p + 1)
  IN  IF p < Len(s) /\ s[p + 1] \in Operators /\ q < Len(s)
         /\ s[q + 1] = s[p + 1]
      THEN SkipClass(s, {s[p + 1]}, q) ELSE -1

\* re.sub(r'([+\-*/=<>])\s*\1+', r'\1', s)
RECURSIVE RemoveDoubleOperatorsFrom(_, _)
RemoveDoubleOperatorsFrom(s, p) ==
  LET at == {q \in p..(Len(s) - 1) : DoubleOperatorEnd(s, q) >= 0}
  IN  IF at = {} THEN Slice(s, p, Len(s))
      ELSE Slice(s, p, MinOf(at) + 1)
             \o RemoveDoubleOperatorsFrom(s, DoubleOperatorEnd(s, MinOf(at)))

RemoveDoubleOperators(s) == RemoveDoubleOperatorsFrom(s, 0)

\* whether r'\s*([+\-*/=<>])\s*' matches at p
SpacedOperatorAt(s, p) ==
  LET q == SkipClass(s, Whitespace, p)
  IN  q < Len(s) /\ s[q + 1] \in Operators

\* re.sub(r'\s*([+\-*/=<>])\s*', r' \1 ', s)
RECURSIVE SpaceOperatorsFrom(_, _)
SpaceOperatorsFrom(s, p) ==
  LET at == {q \in p..(Len(s) - 1) : SpacedOperatorAt(s, q)}
  IN  IF at = {} THEN Slice(s, p, Len(s))
      ELSE LET q == SkipClass(s, Whitespace, MinOf(at))
           IN  Slice(s, p, MinOf(at)) \o <<" ", s[q + 1], " ">>
                 \o SpaceOperatorsFrom(s, SkipClass(s, Whitespace, q + 1))

SpaceOperators(s) == SpaceOperatorsFrom(s, 0)

\* the condition under which _cleanup_latex_commands spaces the operators
SpacingApplies(s) ==
  /\ ~ (HasChar(s, "(") /\ HasChar(s, ")"))
  /\ ~ HasChar(s, SQRT)
  /\ ~ Contains(s, FRAC)

_cleanup_latex_commands(text) ==
  LET t1 == RemoveCommands(text)
      t2 == BracesToParens(t1)
      t3 == CollapseSpaces(t2)
      t4 == RemoveLeadingOperator(t3)
      t5 == RemoveTrailingOperator(t4)
      t6 == RemoveDoubleOperators(t5)
      t7 == IF SpacingApplies(t6) THEN SpaceOperators(t6) ELSE t6
      t8 == StrReplace(t7, FRAC, <<"/">>)
  IN  Strip(CollapseSpaces(t8))

create_fallback_representation(table, formula) ==
  LET f1 == _apply_known_mappings(table, formula)
      f2 == _handle_fractions(table, f1)
      f3 == _handle_square_roots(table, f2)
      f4 == _handle_superscripts_subscripts(f3)
      f5 == _cleanup_latex_commands(f4)
  IN  Strip(CollapseSpaces(f5))

(***************************************************************************)
(* Bounds of the model.                                                    *)
(***************************************************************************)
\* pieces after the heading command in an enumerated line
MaxPieces == 3
\* pieces in an enumerated line handed to is_inside_texorpdfstring
MaxInsidePieces == 4
\* pieces in an enumerated formula
MaxFormulaPieces == 3
\* lines in a document
MaxDocLines == 2
\* process_line calls in a row on one line
MaxCalls == 2
\* pieces in a formula handed to _apply_known_mappings
MaxTokenPieces == 2
\* pieces in the argument of a root
MaxArgPieces == 2
\* pieces in a formula with scripts
MaxScriptPieces == 4
\* pieces in a rendering of an override file
MaxTemplatePieces == 2
\* entries of a mapping file
MaxOverrides == 2

\* what a user types at a prompt for a text, and at the yes/no/custom prompt
TypedTexts == {<<>>, <<" ", "z">>}
TypedAnswers == {<<>>, <<"Y">>, <<"n">>, <<"c">>, <<"q">>}

(***************************************************************************)
(* process_line, with convert_formula_to_unicode and confirm_change.       *)
(***************************************************************************)
\* convert_formula_to_unicode without its first two lines: a key of the table
\* is put through the pipeline like any other formula
convert_by_pipeline(table, formula) ==
  create_fallback_representation(table, formula)

\* convert_formula_to_unicode, the formula being a key of the table
convert_known(table, formula) == Lookup(table, formula)

\* f'\\texorpdfstring{{{full_formula}}}{{{unicode_repr}}}'
Replacement(full_formula, rendering) ==
  TEXORPDFSTRING \o <<"{">> \o full_formula \o <<"}", "{">> \o rendering
    \o <<"}">>

\* modified_line[:start] + replacement + modified_line[end:]
Splice(s, m, replacement) ==
  Slice(s, 0, m.start) \o replacement \o Slice(s, m.end, Len(s))

\* the span a loop over matches, not reversed(matches), would be at
ForwardMatch == matches[Len(matches) + 1 - k]

\* the span the for loop is at
CurMatch == matches[k]
CurFormula == FormulaContent(line, CurMatch)

SetLast(s, e) == [s EXCEPT ![Len(s)] = e]
Last(s) == s[Len(s)]

\* process_line is entered, with the line given or, on a later call, with
\* the line the previous call returned
process_line_begin ==
  /\ pc = "idle"
  /\ calls < MaxCalls
  /\ LET arg == IF calls = 0 THEN line ELSE result
         ms == FindMath(arg)
     IN  /\ line' = arg
         /\ prev_result' = result
         /\ calls' = calls + 1
         /\ modified_line' = arg
         /\ IF ~ IsHeadingLine(arg) \/ ms = <<>>
            THEN /\ result' = arg
                 /\ matches' = <<>>
                 /\ k' = 0
                 /\ pc' = "idle"
            ELSE /\ result' = result
                 /\ matches' = ms
                 /\ k' = Len(ms)
                 /\ pc' = "loop"
  /\ UNCHANGED <<unicode_repr, prompted, trail, fixerVars, apiVars, fileVars>>

\* the span is already inside \texorpdfstring: continue
span_skip ==
  /\ pc = "loop"
  /\ k > 0
  /\ is_inside_texorpdfstring(line, CurMatch.start)
  /\ k' = k - 1
  /\ trail' = Append(trail,
       [call |-> calls, start |-> CurMatch.start, end |-> CurMatch.end,
        formula |-> CurFormula, known |-> FALSE, outcome |-> "inside",
        used |-> <<>>, custom |-> <<>>])
  /\ UNCHANGED <<pc, line, matches, modified_line, unicode_repr, result,
                 prev_result, calls, prompted, fixerVars, apiVars, fileVars>>

\* convert_formula_to_unicode is entered: an exact mapping is returned, an
\* unknown formula is asked for
convert_begin ==
  /\ pc = "loop"
  /\ k > 0
  /\ ~ is_inside_texorpdfstring(line, CurMatch.start)
  /\ trail' = Append(trail,
       [call |-> calls, start |-> CurMatch.start, end |-> CurMatch.end,
        formula |-> CurFormula, known |-> HasKey(math_mappings, CurFormula),
        outcome |-> "pending", used |-> <<>>, custom |-> <<>>])
  /\ IF HasKey(math_mappings, CurFormula)
     THEN /\ unicode_repr' = convert_known(math_mappings, CurFormula)
          /\ pc' = "confirm"
          /\ prompted' = prompted
     ELSE /\ unicode_repr' = unicode_repr
          /\ pc' = "convert_input"
          /\ prompted' = prompted \cup {"formula"}
  /\ UNCHANGED <<line, matches, k, modified_line, result, prev_result, calls,
                 fixerVars, apiVars, fileVars>>

\* the answer to "Enter unicode/text representation for ..."
convert_input ==
  /\ pc = "convert_input"
  /\ \E raw \in TypedTexts :
       LET user_input == Strip(raw)
       IN  IF user_input = <<>>
           THEN /\ unicode_repr' =
                     create_fallback_representation(math_mappings, CurFormula)
                /\ math_mappings' = math_mappings
           ELSE /\ unicode_repr' = user_input
                /\ math_mappings' = Upsert(math_mappings, CurFormula, user_input)
  /\ pc' = "confirm"
  /\ UNCHANGED <<line, matches, k, modified_line, result, prev_result, calls,
                 prompted, trail, mapping_file, constructed, auto_yes, warnings,
                 apiVars, fileVars>>

\* confirm_change returned True: the span is replaced
Accept(custom) ==
  /\ modified_line' =
       Splice(modified_line, CurMatch,
              Replacement(FullFormula(line, CurMatch), unicode_repr))
  /\ trail' = SetLast(trail, [Last(trail) EXCEPT !.outcome = "wrapped",
                                                 !.used = unicode_repr,
                                                 !.custom = custom])
  /\ k' = k - 1
  /\ pc' = "loop"

\* a rejection that ends the for loop: break in the place of continue
RejectAndBreak ==
  /\ modified_line' = modified_line
  /\ trail' = SetLast(trail, [Last(trail) EXCEPT !.outcome = "rejected"])
  /\ k' = 0
  /\ pc' = "loop"

\* confirm_change returned False: continue
Reject ==
  /\ modified_line' = modified_line
  /\ trail' = SetLast(trail, [Last(trail) EXCEPT !.outcome = "rejected"])
  /\ k' = k - 1
  /\ pc' = "loop"

\* confirm_change is entered
confirm_change ==
  /\ pc = "confirm"
  /\ IF auto_yes
     THEN /\ Accept(<<>>)
          /\ prompted' = prompted
     ELSE /\ pc' = "confirm_input"
          /\ prompted' = prompted \cup {"confirm"}
          /\ UNCHANGED <<modified_line, trail, k>>
  /\ UNCHANGED <<line, matches, unicode_repr, result, prev_result, calls,
                 fixerVars, apiVars, fileVars>>

YES == {<<>>, <<"y">>, <<"y", "e", "s">>}
NO == {<<"n">>, <<"n", "o">>}
CUSTOM == {<<"c">>, <<"c", "u", "s", "t", "o", "m">>}

\* the answer to "Apply this change? [Y/n/c(ustom)]"; after any other answer
\* the question is put again
confirm_input ==
  /\ pc = "confirm_input"
  /\ \E raw \in TypedAnswers :
       LET response == Lower(Strip(raw))
       IN  IF response \in YES
           THEN Accept(<<>>) /\ prompted' = prompted
           ELSE IF response \in NO
                THEN Reject /\ prompted' = prompted
                ELSE /\ pc' = IF response \in CUSTOM THEN "custom_input"
                              ELSE "confirm_input"
                     /\ prompted' = IF response \in CUSTOM
                                    THEN prompted \cup {"custom"}
                                    ELSE prompted \cup {"confirm"}
                     /\ UNCHANGED <<modified_line, trail, k>>
  /\ UNCHANGED <<line, matches, unicode_repr, result, prev_result, calls,
                 fixerVars, apiVars, fileVars>>

\* the answer to "Enter custom mapping for ..."
custom_input ==
  /\ pc = "custom_input"
  /\ \E raw \in TypedTexts :
       LET custom_mapping == Strip(raw)
       IN  IF custom_mapping # <<>>
           THEN /\ math_mappings' =
                     Upsert(math_mappings, CurFormula, custom_mapping)
                /\ Accept(custom_mapping)
           ELSE /\ math_mappings' = math_mappings
                /\ Reject
  /\ UNCHANGED <<line, matches, unicode_repr, result, prev_result, calls,
                 prompted, mapping_file, constructed, auto_yes, warnings,
                 apiVars, fileVars>>

\* the for loop is over: return modified_line
process_line_return ==
  /\ pc = "loop"
  /\ k = 0
  /\ result' = modified_line
  /\ pc' = "idle"
  /\ UNCHANGED <<line, matches, k, modified_line, unicode_repr, prev_result,
                 calls, prompted, trail, fixerVars, apiVars, fileVars>>

(***************************************************************************)
(* Lines and formulas of the test suite.                                   *)
(***************************************************************************)
LineAlreadyFixed ==
  <<"\\", "s", "e", "c", "t", "i", "o", "n", "{", "T", "e", "s", "t", " ", "\\", "t", "e", "x", "o", "r", "p", "d", "f", "s", "t", "r", "i", "n", "g", "{", "$", "\\", "a", "l", "p", "h", "a", "$", "}", "{", "U+03B1", "}", " ", "p", "a", "r", "t", "i", "c", "l", "e", "s", "}">>

LineFrac ==
  <<"\\", "s", "e", "c", "t", "i", "o", "n", "{", "S", "t", "u", "d", "y", " ", "o", "f", " ", "$", "\\", "f", "r", "a", "c", "{", "a", "}", "{", "b", "}", "$", " ", "r", "a", "t", "i", "o", "s", "}">>

LineFracWrapped ==
  <<"\\", "s", "e", "c", "t", "i", "o", "n", "{", "S", "t", "u", "d", "y", " ", "o", "f", " ", "\\", "t", "e", "x", "o", "r", "p", "d", "f", "s", "t", "r", "i", "n", "g", "{", "$", "\\", "f", "r", "a", "c", "{", "a", "}", "{", "b", "}", "$", "}", "{", "a", "/", "b", "}", " ", "r", "a", "t", "i", "o", "s", "}">>

LineTwoWraps ==
  <<"\\", "s", "e", "c", "t", "i", "o", "n", "{", "\\", "t", "e", "x", "o", "r", "p", "d", "f", "s", "t", "r", "i", "n", "g", "{", "$", "\\", "a", "l", "p", "h", "a", "$", "}", "{", "U+03B1", "}", " ", "a", "n", "d", " ", "\\", "t", "e", "x", "o", "r", "p", "d", "f", "s", "t", "r", "i", "n", "g", "{", "$", "\\", "b", "e", "t", "a", "$", "}", "{", "U+03B2", "}", "}">>

LineWrapThenSpan ==
  <<"\\", "s", "e", "c", "t", "i", "o", "n", "{", "T", "e", "s", "t", " ", "\\", "t", "e", "x", "o", "r", "p", "d", "f", "s", "t", "r", "i", "n", "g", "{", "$", "\\", "a", "l", "p", "h", "a", "$", "}", "{", "a", "l", "p", "h", "a", "}", " ", "a", "n", "d", " ", "$", "\\", "b", "e", "t", "a", "$", "}">>

LineEmptyFormula ==
  <<"\\", "s", "e", "c", "t", "i", "o", "n", "{", "T", "e", "s", "t", " ", "$", "$", " ", "f", "o", "r", "m", "u", "l", "a", "}">>

LineWhitespace ==
  <<" ", " ", "\\", "s", "e", "c", "t", "i", "o", "n", " ", " ", "{", " ", " ", "I", "n", "t", "r", "o", "d", "u", "c", "t", "i", "o", "n", " ", "t", "o", " ", "$", "\\", "a", "l", "p", "h", "a", "$", " ", "p", "a", "r", "t", "i", "c", "l", "e", "s", " ", " ", "}", " ", " ">>

LineTwoFormulas ==
  <<"\\", "s", "e", "c", "t", "i", "o", "n", "{", "S", "t", "u", "d", "y", " ", "o", "f", " ", "$", "\\", "a", "l", "p", "h", "a", "$", " ", "a", "n", "d", " ", "$", "\\", "b", "e", "t", "a", "$", " ", "p", "a", "r", "t", "i", "c", "l", "e", "s", "}">>

LineChapter ==
  <<"\\", "c", "h", "a", "p", "t", "e", "r", "{", "I", "n", "t", "r", "o", "d", "u", "c", "t", "i", "o", "n", " ", "t", "o", " ", "$", "\\", "a", "l", "p", "h", "a", "$", " ", "p", "a", "r", "t", "i", "c", "l", "e", "s", "}">>

FracAB ==
  <<"\\", "f", "r", "a", "c", "{", "a", "}", "{", "b", "}">>

FracSum ==
  <<"\\", "f", "r", "a", "c", "{", "x", "+", "1", "}", "{", "y", "-", "1", "}">>

AB ==
  <<"a", "/", "b">>

FracSumOut ==
  <<"(", "x", "+", "1", ")", "/", "(", "y", "-", "1", ")">>

UnknownBetween ==
  <<"\\", "a", "l", "p", "h", "a", " ", "+", " ", "\\", "u", "n", "k", "n", "o", "w", "n", " ", "+", " ", "\\", "b", "e", "t", "a">>

UnknownBetweenOut ==
  <<"U+03B1", " ", "+", " ", "U+03B2">>

UnknownFirst ==
  <<"\\", "u", "n", "k", "n", "o", "w", "n", " ", "+", " ", "x">>

UnknownFirstOut ==
  <<"x">>

UnknownAlone ==
  <<"\\", "u", "n", "k", "n", "o", "w", "n">>

UnknownBetweenOperators ==
  <<"x", " ", "+", " ", "\\", "u", "n", "k", "n", "o", "w", "n", " ", "-", " ", "y">>

StarredAfterBackslash ==
  <<"\\", "\\", "x", "*", "y">>

SqrtSum ==
  <<"\\", "s", "q", "r", "t", "{", "x", "+", "1", "}">>

SqrtSumOut ==
  <<"U+221A", "(", "x", "+", "1", ")">>

SqrtX ==
  <<"\\", "s", "q", "r", "t", "{", "x", "}">>

SqrtXOut ==
  <<"U+221A", "x">>

ScriptsMixed ==
  <<"x", "^", "2", " ", "+", " ", "y", "_", "i">>

ScriptsMixedOut ==
  <<"x", "U+00B2", " ", "+", " ", "y", "U+1D62">>

ScriptBraced ==
  <<"x", "^", "{", "n", "+", "1", "}">>

ScriptBracedOut ==
  <<"x", "U+207F", "U+207A", "U+00B9">>

ScriptsBraced ==
  <<"x", "^", "{", "n", "+", "1", "}", " ", "+", " ", "y", "_", "{", "i", "-", "1", "}">>

ScriptsBracedOut ==
  <<"x", "U+207F", "U+207A", "U+00B9", " ", "+", " ", "y", "U+1D62", "U+208B", "U+2081">>

EngineSamples ==
  {UnknownBetween,
   UnknownFirst,
   UnknownAlone,
   UnknownBetweenOperators,
   StarredAfterBackslash,
   SqrtSum,
   SqrtX,
   ScriptsMixed,
   ScriptBraced,
   ScriptsBraced}

SampleLines ==
  {LineAlreadyFixed, LineFrac, LineTwoWraps, LineWrapThenSpan, LineEmptyFormula, LineWhitespace, LineTwoFormulas, LineChapter}

(***************************************************************************)
(* is_inside_texorpdfstring and create_fallback_representation, called     *)
(* from outside the class as the tests call them.                          *)
(***************************************************************************)
is_inside_call ==
  /\ pc = "idle"
  /\ \E p \in 0..Len(line) :
       /\ pos_arg' = p
       /\ inside' = is_inside_texorpdfstring(line, p)
  /\ pc' = "done"
  /\ UNCHANGED <<formula_arg, fixerVars, lineVars, fileVars>>

fallback_call ==
  /\ pc = "idle"
  /\ IF apply_known_raises(math_mappings)
     THEN /\ exc' = "re.error"
          /\ pc' = "raised"
          /\ UNCHANGED result
     ELSE /\ result' = create_fallback_representation(math_mappings,
                                                      formula_arg)
          /\ pc' = "done"
          /\ UNCHANGED exc
  /\ UNCHANGED <<line, matches, k, modified_line, unicode_repr, prev_result,
                 calls, prompted, trail, fixerVars, apiVars, doc, out_file,
                 saved, i, modified_lines, changes_made, exit_code>>

\* TexHeadingFixer(mapping_file, auto_yes)
__init__ ==
  /\ pc = "new"
  /\ IF load_raises(mapping_file) # "none"
     THEN /\ exc' = load_raises(mapping_file)
          /\ pc' = "raised"
          /\ UNCHANGED <<math_mappings, constructed, warnings>>
     ELSE /\ math_mappings' = load_mappings(mapping_file)
          /\ constructed' = TRUE
          /\ warnings' = warnings + (IF load_warns(mapping_file) THEN 1 ELSE 0)
          /\ pc' = "idle"
          /\ exc' = exc
  /\ UNCHANGED <<mapping_file, auto_yes, lineVars, apiVars, doc, out_file,
                 saved, i, modified_lines, changes_made, exit_code>>

\* _apply_known_mappings called on its own
apply_known_call ==
  /\ pc = "idle"
  /\ result' = _apply_known_mappings(math_mappings, formula_arg)
  /\ pc' = "done"
  /\ UNCHANGED <<line, matches, k, modified_line, unicode_repr, prev_result,
                 calls, prompted, trail, fixerVars, apiVars, fileVars>>

\* _handle_square_roots called on its own
square_roots_call ==
  /\ pc = "idle"
  /\ result' = _handle_square_roots(math_mappings, formula_arg)
  /\ pc' = "rooted"
  /\ UNCHANGED <<line, matches, k, modified_line, unicode_repr, prev_result,
                 calls, prompted, trail, fixerVars, apiVars, fileVars>>

\* _handle_superscripts_subscripts called on its own
scripts_call ==
  /\ pc = "idle"
  /\ result' = _handle_superscripts_subscripts(formula_arg)
  /\ pc' = "scripted"
  /\ UNCHANGED <<line, matches, k, modified_line, unicode_repr, prev_result,
                 calls, prompted, trail, fixerVars, apiVars, fileVars>>

(***************************************************************************)
(* main and process_file.                                                  *)
(***************************************************************************)
\* A document on disk: [state, lines]. state is "missing" (no such path),
\* "unreadable" (open raises IOError) or "ok".

\* main up to the call of process_file
main_begin ==
  /\ pc = "main"
  /\ IF doc.state = "missing"
     THEN /\ exit_code' = 1
          /\ pc' = "exited"
          /\ UNCHANGED <<math_mappings, constructed, warnings>>
     ELSE /\ math_mappings' = load_mappings(mapping_file)
          /\ constructed' = TRUE
          /\ warnings' = warnings + (IF load_warns(mapping_file) THEN 1 ELSE 0)
          /\ pc' = "process_file"
          /\ exit_code' = exit_code
  /\ UNCHANGED <<mapping_file, auto_yes, lineVars, apiVars, doc, out_file,
                 saved, i, modified_lines, changes_made, exc>>

\* process_file up to its for loop
process_file_read ==
  /\ pc = "process_file"
  /\ pc' = IF doc.state = "unreadable" THEN "main_return" ELSE "file_loop"
  /\ i' = 0
  /\ modified_lines' = <<>>
  /\ changes_made' = FALSE
  /\ UNCHANGED <<fixerVars, lineVars, apiVars, doc, out_file, saved, exc,
                 exit_code>>

\* One turn of the for loop of process_file, or what follows the loop. The
\* argument list of self.process_line(line_num, line) names line_num, which
\* is bound nowhere: evaluating it raises NameError before process_line is
\* called, and nothing catches it.
process_file_loop ==
  /\ pc = "file_loop"
  /\ IF i < Len(doc.lines)
     THEN /\ i' = i + 1
          /\ exc' = "NameError"
          /\ exit_code' = 1
          /\ pc' = "exited"
          /\ UNCHANGED <<out_file, saved, mapping_file>>
     ELSE /\ i' = i
          /\ exc' = exc
          /\ exit_code' = exit_code
          /\ pc' = "main_return"
          /\ IF changes_made
             THEN /\ out_file' = [written |-> TRUE, lines |-> modified_lines]
                  /\ saved' = saved + 1
                  /\ mapping_file' = save_mappings(math_mappings)
             ELSE UNCHANGED <<out_file, saved, mapping_file>>
  /\ UNCHANGED <<math_mappings, constructed, auto_yes, warnings, lineVars,
                 apiVars, doc, modified_lines, changes_made>>

\* process_file returned: main returns 0
main_return ==
  /\ pc = "main_return"
  /\ exit_code' = 0
  /\ pc' = "exited"
  /\ UNCHANGED <<fixerVars, lineVars, apiVars, doc, out_file, saved, i,
                 modified_lines, changes_made, exc>>

(***************************************************************************)
(* Inputs.                                                                 *)
(***************************************************************************)
\* all concatenations of at most n pieces
RECURSIVE Concats(_, _)
Concats(pieces, n) ==
  IF n = 0 THEN {<<>>}
  ELSE LET shorter == Concats(pieces, n - 1)
       IN  shorter \cup {s \o p : s \in shorter, p \in pieces}

SECTION_OPEN == <<BS>> \o SECTION \o <<"{">>
CHAPTER_OPEN == <<BS, "c", "h", "a", "p", "t", "e", "r", "{">>
TEXORPDF_OPEN == TEXORPDFSTRING \o <<"{">>

\* pieces of the body of a heading: a delimiter, a delimiter with a letter
\* after it, the braces
LinePieces == {<<"$">>, <<"$", "a">>, <<"{">>, <<"}">>}

Lines ==
  {SECTION_OPEN \o b : b \in Concats(LinePieces, MaxPieces)} \cup SampleLines

InsidePieces ==
  {<<"$">>, <<"{">>, <<"}">>, TEXORPDF_OPEN, TEXORPDFSTRING \o <<" ", "{">>}

InsideLines == Concats(InsidePieces, MaxInsidePieces) \cup SampleLines

FormulaPieces ==
  {FRAC_CMD, <<"}", "{">>, <<"}">>, <<"a">>, <<"+">>, <<" ">>}

Formulas ==
  Concats(FormulaPieces, MaxFormulaPieces)
    \cup {default_mappings[j][1] : j \in 1..Len(default_mappings)}
    \cup {FracAB, FracSum}
    \cup EngineSamples


MappingFiles ==
  {[state |-> "absent", entries |-> <<>>],
   [state |-> "malformed", entries |-> <<>>],
   [state |-> "ok", entries |-> << << <<"a">>, <<"b">> >> >>]}

\* commands of which one is the beginning of another, with and without a key
TokenPieces ==
  {<<"\\", "i", "n">>,
   <<"\\", "i", "n", "f", "t", "y">>,
   <<"\\", "i", "n", "t">>,
   <<"\\", "l", "e">>,
   <<"\\", "l", "e", "q">>,
   <<"\\", "l", "e", "f", "t", "a", "r", "r", "o", "w">>,
   <<"\\", "t", "o">>,
   <<"\\", "t", "o", "p">>,
   <<"\\", "i", "n", "x">>,
   <<"f", "t", "y">>,
   <<"q">>,
   <<" ">>,
   <<"\\", "s", "u", "m">>,
   <<"_", "{", "i", "=", "1", "}", "^", "n">>}

TokenFormulas == Concats(TokenPieces, MaxTokenPieces)

\* what stands in the argument of a root
ArgPieces ==
  {<<"x">>,
   <<"+">>,
   <<"-">>,
   <<"/">>,
   <<" ">>,
   <<"\\", "a", "l", "p", "h", "a">>,
   <<"\\", "f", "r", "a", "c", "{", "a", "}", "{", "c", "}">>,
   <<"{", "a", "}">>}

RootFormulas ==
  {SQRT_CMD \o a \o <<"}">> : a \in Concats(ArgPieces, MaxArgPieces)}
    \cup {SqrtSum, SqrtX}

\* script marks, braces and characters inside and outside the two tables
ScriptPieces ==
  {<<"^", "{">>,
   <<"_", "{">>,
   <<"}">>,
   <<"^">>,
   <<"_">>,
   <<"x">>,
   <<"2">>,
   <<"q">>,
   <<"+">>}

ScriptFormulas ==
  Concats(ScriptPieces, MaxScriptPieces)
    \cup {ScriptsMixed, ScriptBraced, ScriptsBraced}

\* renderings an override file can give: plain text, escapes, references
TemplatePieces ==
  {<<"\\">>,
   <<"n">>,
   <<"q">>,
   <<"1">>,
   <<".">>,
   <<"g", "<", "0", ">">>,
   <<"z">>}

\* override files of one entry, its key a command without a default
\* rendering or a plain character
TemplateFiles ==
  {[state |-> "ok", entries |-> << <<key, val>> >>] :
     key \in {<<"\\", "f", "o", "o">>, <<"a">>},
     val \in Concats(TemplatePieces, MaxTemplatePieces)}

TemplateFormulas ==
  {<<>>,
   <<"\\", "f", "o", "o">>,
   <<"x", "\\", "f", "o", "o", "+", "\\", "a", "l", "p", "h", "a">>,
   <<"a">>}

\* the items of a mapping file: at most n entries, no key twice
OverrideKeys == {<<BS, "a", "l", "p", "h", "a">>, FracAB, <<"a">>}
OverrideValues == {<<"A">>, <<"b">>}

RECURSIVE Items(_)
Items(n) ==
  IF n = 0 THEN {<<>>}
  ELSE LET shorter == Items(n - 1)
       IN  shorter \cup
             {Append(e, <<key, val>>) :
                e \in {x \in shorter : Len(x) = n - 1},
                key \in OverrideKeys, val \in OverrideValues}

UniqueKeys(table) ==
  \A m, n \in 1..Len(table) : table[m][1] = table[n][1] => m = n

OverrideFiles ==
  {[state |-> st, entries |-> <<>>] :
     st \in {"absent", "unreadable", "undecodable", "malformed", "scalar"}}
    \cup {[state |-> st, entries |-> e] :
            st \in {"ok", "array"},
            e \in {x \in Items(MaxOverrides) : UniqueKeys(x)}}

DocLines == {LineFrac, LineChapter, <<"\n">>}

Docs ==
  {[state |-> "missing", lines |-> <<>>],
   [state |-> "unreadable", lines |-> <<>>]}
    \cup {[state |-> "ok", lines |-> d] : d \in Concats({<<x>> : x \in DocLines}, MaxDocLines)}

(***************************************************************************)
(* Specifications.                                                         *)
(***************************************************************************)
\* a constructed fixer, nothing called yet
Constructed ==
  /\ math_mappings = load_mappings(mapping_file)
  /\ constructed = TRUE
  /\ warnings = (IF load_warns(mapping_file) THEN 1 ELSE 0)
  /\ auto_yes \in BOOLEAN

NoLineCall ==
  /\ matches = <<>>
  /\ k = 0
  /\ modified_line = <<>>
  /\ unicode_repr = <<>>
  /\ result = <<>>
  /\ prev_result = <<>>
  /\ calls = 0
  /\ prompted = {}
  /\ trail = <<>>

NoApiCall ==
  /\ formula_arg = <<>>
  /\ pos_arg = 0
  /\ inside = FALSE

NoFileRun ==
  /\ out_file = [written |-> FALSE, lines |-> <<>>]
  /\ saved = 0
  /\ i = 0
  /\ modified_lines = <<>>
  /\ changes_made = FALSE
  /\ exc = "none"
  /\ exit_code = -1

NoDoc == doc = [state |-> "missing", lines |-> <<>>]

\* process_line on one line, then on its own result
Init ==
  /\ pc = "idle"
  /\ mapping_file \in {f \in MappingFiles : f.state # "malformed"}
  /\ Constructed
  /\ line \in Lines
  /\ NoLineCall /\ NoApiCall /\ NoFileRun /\ NoDoc

Next ==
  \/ process_line_begin
  \/ span_skip
  \/ convert_begin
  \/ convert_input
  \/ confirm_change
  \/ confirm_input
  \/ custom_input
  \/ process_line_return

Spec == Init /\ [][Next]_vars

\* is_inside_texorpdfstring on one line
InitInside ==
  /\ pc = "idle"
  /\ mapping_file = [state |-> "absent", entries |-> <<>>]
  /\ Constructed
  /\ auto_yes = FALSE
  /\ line \in InsideLines
  /\ NoLineCall /\ NoApiCall /\ NoFileRun /\ NoDoc

NextInside == is_inside_call

SpecInside == InitInside /\ [][NextInside]_vars

\* create_fallback_representation on one formula
InitFallback ==
  /\ pc = "idle"
  /\ mapping_file = [state |-> "absent", entries |-> <<>>]
  /\ Constructed
  /\ auto_yes = FALSE
  /\ line = <<>>
  /\ matches = <<>> /\ k = 0 /\ modified_line = <<>> /\ unicode_repr = <<>>
  /\ result = <<>> /\ prev_result = <<>> /\ calls = 0 /\ prompted = {}
  /\ trail = <<>>
  /\ formula_arg \in Formulas
  /\ pos_arg = 0 /\ inside = FALSE
  /\ NoFileRun /\ NoDoc

NextFallback == fallback_call

SpecFallback == InitFallback /\ [][NextFallback]_vars

\* the construction of a fixer
InitLoad ==
  /\ pc = "new"
  /\ mapping_file \in OverrideFiles
  /\ math_mappings = <<>>
  /\ constructed = FALSE
  /\ warnings = 0
  /\ auto_yes = FALSE
  /\ line = <<>>
  /\ NoLineCall /\ NoApiCall /\ NoFileRun /\ NoDoc

NextLoad == __init__

SpecLoad == InitLoad /\ [][NextLoad]_vars

\* a fixer with the default table and one formula for a part of the engine
EngineInit(formulas) ==
  /\ pc = "idle"
  /\ mapping_file = [state |-> "absent", entries |-> <<>>]
  /\ Constructed
  /\ auto_yes = FALSE
  /\ line = <<>>
  /\ NoLineCall
  /\ formula_arg \in formulas
  /\ pos_arg = 0 /\ inside = FALSE
  /\ NoFileRun /\ NoDoc

\* _apply_known_mappings on one formula
InitMappings == EngineInit(TokenFormulas)

NextMappings == apply_known_call

SpecMappings == InitMappings /\ [][NextMappings]_vars

\* a root through its stage and through the whole engine
InitRoots == EngineInit(RootFormulas)

NextRoots == square_roots_call \/ fallback_call

SpecRoots == InitRoots /\ [][NextRoots]_vars

\* _handle_superscripts_subscripts on one formula
InitScripts == EngineInit(ScriptFormulas)

NextScripts == scripts_call

SpecScripts == InitScripts /\ [][NextScripts]_vars

\* the engine of a fixer built with an override file
InitTotal ==
  /\ pc = "idle"
  /\ mapping_file \in TemplateFiles
  /\ Constructed
  /\ auto_yes = FALSE
  /\ line = <<>>
  /\ NoLineCall
  /\ formula_arg \in TemplateFormulas
  /\ pos_arg = 0 /\ inside = FALSE
  /\ NoFileRun /\ NoDoc

NextTotal == fallback_call

SpecTotal == InitTotal /\ [][NextTotal]_vars

\* one run of main
InitFile ==
  /\ pc = "main"
  /\ mapping_file \in MappingFiles
  /\ math_mappings = <<>>
  /\ constructed = FALSE
  /\ warnings = 0
  /\ auto_yes \in BOOLEAN
  /\ line = <<>>
  /\ NoLineCall /\ NoApiCall /\ NoFileRun
  /\ doc \in Docs

NextFile ==
  \/ main_begin
  \/ process_file_read
  \/ process_file_loop
  \/ main_return

SpecFile == InitFile /\ [][NextFile]_vars

(***************************************************************************)
(* Properties.                                                             *)
(***************************************************************************)
\* the trail of the call of process_line that is running or ran last
CallEntries == {j \in 1..Len(trail) : trail[j].call = calls}

\* every span offered so far was accepted as proposed
AllAccepted ==
  \A j \in 1..Len(trail) :
    trail[j].outcome \in {"inside", "wrapped"} /\ trail[j].custom = <<>>

CallAccepted ==
  \A j \in CallEntries :
    trail[j].outcome \in {"inside", "wrapped"} /\ trail[j].custom = <<>>

\* the rendering the call used for the span that starts at offset start
UsedAt(start) ==
  LET j == CHOOSE n \in CallEntries : trail[n].start = start
  IN  trail[j].used

\* s from offset p on, the spans ms[j], ms[j+1], ... that are not inside a
\* wrapper replaced by their wrapped form, left to right
RECURSIVE WrapSpans(_, _, _, _)
WrapSpans(s, p, ms, j) ==
  IF j > Len(ms) THEN Slice(s, p, Len(s))
  ELSE Slice(s, p, ms[j].start)
         \o (IF is_inside_texorpdfstring(s, ms[j].start)
             THEN FullFormula(s, ms[j])
             ELSE Replacement(FullFormula(s, ms[j]), UsedAt(ms[j].start)))
         \o WrapSpans(s, ms[j].end, ms, j + 1)

\* C1: process_line is idempotent when every replacement is accepted: the
\* result of a call on the result of the previous call is that result again.
C1_Idempotent ==
  (pc = "idle" /\ calls >= 2 /\ AllAccepted) => result = prev_result

\* a call on the result of an accepted first call wrapped a wrapper again
C1_Rewrapped ==
  /\ pc = "idle" /\ calls = 2 /\ AllAccepted
  /\ result # prev_result
  /\ Contains(result, TEXORPDF_OPEN \o TEXORPDF_OPEN)

\* C2: on a heading line with every replacement accepted as proposed, the
\* result is the line with every non-empty span that is not inside a wrapper
\* replaced by \texorpdfstring{$f$}{r}; r is the table's rendering of f,
\* verbatim, whenever f is a key of the table, and the line
\* \section{Study of $\frac{a}{b}$ ratios} becomes
\* \section{Study of \texorpdfstring{$\frac{a}{b}$}{a/b} ratios}.
C2_WrapsWithExactLookup ==
  (pc = "idle" /\ calls >= 1 /\ IsHeadingLine(line) /\ CallAccepted) =>
    /\ result = WrapSpans(line, 0, FindMath(line), 1)
    /\ \A j \in CallEntries :
         (trail[j].outcome = "wrapped" /\ trail[j].known) =>
           trail[j].used = Lookup(math_mappings, trail[j].formula)
    /\ line = LineFrac => result = LineFracWrapped

C2_Witness ==
  /\ pc = "idle" /\ calls = 1 /\ line = LineFrac
  /\ \E j \in CallEntries : trail[j].outcome = "wrapped" /\ trail[j].known
  /\ result = LineFracWrapped

\* The spans of s from offset p on when the delimiters are paired left to
\* right and two adjacent delimiters are an empty span, which is no formula.
RECURSIVE PairedSpansFrom(_, _)
PairedSpansFrom(s, p) ==
  LET q == NextIn(s, {"$"}, p)
      r == NextIn(s, {"$"}, q + 1)
  IN  IF q >= Len(s) \/ r >= Len(s) THEN {}
      ELSE IF r = q + 1 THEN PairedSpansFrom(s, r + 1)
           ELSE {[start |-> q, end |-> r + 1]} \cup PairedSpansFrom(s, r + 1)

\* C3: an empty span $$ is skipped entirely: neither of its delimiters opens
\* or closes a span that process_line wraps, so every wrapped span is one of
\* the spans left when the delimiters are paired left to right with the
\* empty spans dropped; a heading line whose only delimiters are $$ is
\* returned unchanged.
C3_EmptySpanSkipped ==
  /\ \A j \in CallEntries :
       trail[j].outcome = "wrapped" =>
         [start |-> trail[j].start, end |-> trail[j].end]
           \in PairedSpansFrom(line, 0)
  /\ (pc = "idle" /\ calls >= 1 /\ PairedSpansFrom(line, 0) = {}) =>
       result = line

\* a wrapped span opens with the second delimiter of an empty span
C3_EmptySpanDelimiterUsed ==
  \E j \in CallEntries :
    /\ trail[j].outcome = "wrapped"
    /\ trail[j].start >= 1
    /\ line[trail[j].start] = "$"
    /\ [start |-> trail[j].start, end |-> trail[j].end]
         \notin PairedSpansFrom(line, 0)

\* the number of offsets q in a..(b - 1) with s[q] = c
CountIn(s, c, a, b) == Cardinality({q \in a..(b - 1) : s[q + 1] = c})

\* end() of the nearest opener \texorpdfstring{ that lies before offset p,
\* -1 if there is none
ArgStart(s, p) ==
  LET ends == {TexorpdfEnd(s, q) : q \in {n \in 0..(p - 1) : s[n + 1] = BS}}
      before == {e \in ends : 0 <= e /\ e <= p}
  IN  IF before = {} THEN -1 ELSE CHOOSE e \in before : \A f \in before : f <= e

\* offset of the brace that closes the argument opened just before offset a:
\* the first closing brace with as many opening as closing braces between a
\* and it; -1 if there is none
ArgEnd(s, a) ==
  LET closing == {q \in a..(Len(s) - 1) :
                    /\ s[q + 1] = "}"
                    /\ CountIn(s, "{", a, q) = CountIn(s, "}", a, q)}
  IN  IF closing = {} THEN -1 ELSE MinOf(closing)

InsideFirstArgument(s, p) ==
  LET a == ArgStart(s, p)
  IN  a >= 0 /\ p <= ArgEnd(s, a)

\* C4: is_inside_texorpdfstring(line, p) is true iff p lies within the first
\* argument of the nearest \texorpdfstring{ opener before p, the end of the
\* argument found by counting braces; on the line with two wrappers the
\* spans in either first argument are inside, the offsets in a second
\* argument or after both wrappers are not.
C4_InsideFirstArgument ==
  pc = "done" =>
    /\ inside = InsideFirstArgument(line, pos_arg)
    /\ (line = LineTwoWraps /\ pos_arg \in {25, 58}) => inside
    /\ (line = LineTwoWraps /\ pos_arg \in {35, 67, 69}) => ~ inside

C4_Witness ==
  pc = "done" /\ line = LineTwoWraps /\ pos_arg = 58 /\ inside

\* C5: for every key t of the table, create_fallback_representation(t) is
\* math_mappings[t].
C5_FallbackOfKeyIsLookup ==
  (pc = "done" /\ HasKey(math_mappings, formula_arg)) =>
    result = Lookup(math_mappings, formula_arg)

\* the pipeline's rendering of a key differs from the table's
C5_KeyRenderedOtherwise ==
  /\ pc = "done"
  /\ HasKey(math_mappings, formula_arg)
  /\ result # Lookup(math_mappings, formula_arg)

\* C6: create_fallback_representation renders \frac{x+1}{y-1} as
\* (x+1)/(y-1) and \frac{a}{b} as a/b, and the division placeholder never
\* survives into a result.
C6_FractionRewrite ==
  pc = "done" =>
    /\ formula_arg = FracSum => result = FracSumOut
    /\ formula_arg = FracAB => result = AB
    /\ ~ Contains(result, FRAC)

\* \frac{a}{b} rendered with a blank on either side of the slash
C6_SpacedSlash ==
  /\ pc = "done"
  /\ formula_arg = FracAB
  /\ result = <<"a", " ", "/", " ", "b">>

\* C7: when a span with content f is accepted with a custom rendering c, the
\* replacement written for the span carries c and math_mappings[f] is c.
C7_CustomRenderingUsed ==
  \A j \in 1..Len(trail) :
    (j = Len(trail) /\ trail[j].outcome = "wrapped" /\ trail[j].custom # <<>>)
      => /\ trail[j].used = trail[j].custom
         /\ HasKey(math_mappings, trail[j].formula)
         /\ Lookup(math_mappings, trail[j].formula) = trail[j].custom

\* a span accepted with a custom rendering, wrapped with another rendering
C7_ProposedRenderingWritten ==
  /\ trail # <<>>
  /\ Last(trail).outcome = "wrapped"
  /\ Last(trail).custom # <<>>
  /\ Last(trail).used # Last(trail).custom
  /\ Lookup(math_mappings, Last(trail).formula) = Last(trail).custom

\* C8: with auto_yes set no input request occurs and every candidate
\* replacement is accepted.
C8_AutoYesNeverPrompts ==
  auto_yes =>
    /\ prompted = {}
    /\ \A j \in 1..Len(trail) : trail[j].outcome # "rejected"

\* with auto_yes set, the rendering of an unknown formula was asked for
C8_PromptedUnderAutoYes ==
  auto_yes /\ "formula" \in prompted

\* C9: for a readable document process_file reaches the end of its loop
\* with every line processed, raises nothing, and writes the output file
\* only if a line changed.
C9_ProcessFileCompletes ==
  (pc = "exited" /\ doc.state = "ok") =>
    /\ exc = "none"
    /\ i = Len(doc.lines)
    /\ out_file.written => changes_made

\* the run ended in the first turn of the loop, on NameError
C9_NameErrorRaised ==
  /\ pc = "exited" /\ doc.state = "ok"
  /\ Len(doc.lines) > 1
  /\ exc = "NameError" /\ i = 1

\* C10: main exits non-zero for a missing input path, no fixer constructed
\* and no file written, and exits 0 for every existing input file.
C10_ExitCodes ==
  pc = "exited" =>
    /\ doc.state = "missing" =>
         exit_code # 0 /\ ~ constructed /\ ~ out_file.written /\ saved = 0
    /\ doc.state # "missing" => exit_code = 0

\* an existing document with a heading to fix, and the exit status is 1
C10_ExitOneOnExistingFile ==
  /\ pc = "exited" /\ doc.state = "ok"
  /\ \E n \in 1..Len(doc.lines) : doc.lines[n] = LineFrac
  /\ exit_code = 1

\* ^\s*\\(sub)?section\s*\{ read as a statement about the line: blanks, the
\* command \section or \subsection, blanks, an opening brace
HeadingPattern(s) ==
  \E a \in 0..Len(s) :
    \E name \in {<<BS>> \o SECTION, <<BS>> \o SUB \o SECTION} :
      /\ \A n \in 1..a : s[n] \in Whitespace
      /\ StartsAt(s, name, a)
      /\ \E c \in (a + Len(name))..(Len(s) - 1) :
           /\ \A n \in (a + Len(name) + 1)..c : s[n] \in Whitespace
           /\ s[c + 1] = "{"

\* a line process_line has nothing to do on: no heading, or a heading all of
\* whose spans are inside a wrapper
NothingToWrap(s) ==
  \/ ~ HeadingPattern(s)
  \/ \A n \in 1..Len(FindMath(s)) :
       is_inside_texorpdfstring(s, FindMath(s)[n].start)

\* C11: process_line is the identity on every line that does not match the
\* heading pattern and on every heading line with no unwrapped span; during
\* such a call nothing is asked and the table is left unchanged.
C11_IdentityOffHeadings ==
  [][(calls' >= 1 /\ NothingToWrap(line')) =>
       /\ math_mappings' = math_mappings
       /\ prompted' = prompted
       /\ pc' \in {"idle", "loop"}
       /\ pc' = "idle" => result' = line']_vars

C11_Witness ==
  /\ pc = "idle" /\ calls = 1
  /\ line = LineAlreadyFixed
  /\ \E j \in CallEntries : trail[j].outcome = "inside"
  /\ result = line /\ prompted = {}

\* the offsets of the delimiters of s
Delimiters(s) == {q \in 0..(Len(s) - 1) : s[q + 1] = "$"}

\* C12: spans are pairs of delimiters found left to right and a delimiter
\* without a partner yields no span: a heading line with exactly one
\* delimiter is returned unchanged, and on a line with an odd number of
\* delimiters the last one lies outside every span process_line found.
C12_UnpairedDelimiterLeft ==
  (pc = "idle" /\ calls >= 1 /\ Cardinality(Delimiters(line)) % 2 = 1) =>
    /\ Cardinality(Delimiters(line)) = 1 => result = line /\ CallEntries = {}
    /\ \A j \in CallEntries : \A q \in Delimiters(line) :
         (\A r \in Delimiters(line) : r <= q) =>
           ~ (trail[j].start <= q /\ q < trail[j].end)

\* the last of three delimiters closes a span that was wrapped
C12_LastDelimiterInSpan ==
  /\ pc = "idle" /\ calls = 1
  /\ Cardinality(Delimiters(line)) = 3
  /\ \E j \in CallEntries :
       /\ trail[j].outcome = "wrapped"
       /\ line[trail[j].end] = "$"
       /\ \A r \in Delimiters(line) : r < trail[j].end

DefaultKeys == {default_mappings[n][1] : n \in 1..Len(default_mappings)}

FileKeys(file) == {file.entries[n][1] : n \in 1..Len(file.entries)}

\* C13: with an override file that holds a valid mapping, the table maps
\* every key of the file to the file's rendering, every default key that is
\* not in the file to its default rendering, holds no other key and holds
\* no key twice.
C13_OverridesMergedOnTop ==
  (pc = "idle" /\ mapping_file.state = "ok") =>
    /\ \A n \in 1..Len(mapping_file.entries) :
         \E m \in 1..Len(math_mappings) :
           math_mappings[m] = mapping_file.entries[n]
    /\ \A n \in 1..Len(default_mappings) :
         default_mappings[n][1] \notin FileKeys(mapping_file) =>
           \E m \in 1..Len(math_mappings) :
             math_mappings[m] = default_mappings[n]
    /\ \A m \in 1..Len(math_mappings) :
         math_mappings[m][1] \in DefaultKeys \cup FileKeys(mapping_file)
    /\ \A m, n \in 1..Len(math_mappings) :
         math_mappings[m][1] = math_mappings[n][1] => m = n

C13_Witness ==
  /\ pc = "idle" /\ mapping_file.state = "ok"
  /\ \E n \in 1..Len(mapping_file.entries) :
       /\ mapping_file.entries[n] = << <<BS, "a", "l", "p", "h", "a">>, <<"A">> >>
       /\ Lookup(math_mappings, mapping_file.entries[n][1]) = <<"A">>
  /\ \E n \in 1..Len(mapping_file.entries) :
       mapping_file.entries[n][1] \notin DefaultKeys

\* C14: a failure to read or parse the override file is not fatal: the
\* constructor returns, the table is the built-in defaults and a diagnostic
\* was printed.
C14_LoadFailureNonFatal ==
  (pc # "new" /\ mapping_file.state \notin {"absent", "ok"}) =>
    /\ pc = "idle" /\ exc = "none" /\ constructed
    /\ math_mappings = default_mappings
    /\ warnings = 1

\* the constructor raised on a mapping file that holds JSON null
C14_ConstructorRaised ==
  /\ pc = "raised" /\ mapping_file.state = "scalar"
  /\ exc = "TypeError" /\ ~ constructed

\* the document holds a heading with a span that is wrapped when offered
HasHeadingToFix(d) ==
  \E n \in 1..Len(d.lines) :
    /\ HeadingPattern(d.lines[n])
    /\ \E m \in 1..Len(FindMath(d.lines[n])) :
         ~ is_inside_texorpdfstring(d.lines[n], FindMath(d.lines[n])[m].start)

HasCommandToken(s) ==
  \E q \in 1..(Len(s) - 1) : s[q] = BS /\ s[q + 1] \in Letters

\* C16: a command that is no key of the table is removed with the operator
\* its removal leaves dangling: \alpha + \unknown + \beta gives the
\* renderings of \alpha and \beta around one +, \unknown + x gives x, an
\* unknown command alone gives the empty string, and no result holds a
\* backslash with a letter after it.
C16_UnknownCommandRemoved ==
  pc = "done" =>
    /\ formula_arg = UnknownBetween => result = UnknownBetweenOut
    /\ formula_arg = UnknownFirst => result = UnknownFirstOut
    /\ formula_arg = UnknownAlone => result = <<>>
    /\ ~ HasCommandToken(result)

\* \\x*y gave \y: the backslash left of the removed \x* met the letter
C16_CommandTokenLeft ==
  /\ pc = "done"
  /\ formula_arg = StarredAfterBackslash
  /\ result = <<BS, "y">>

\* the entries whose key is a command that stands at offset p of s with no
\* letter after it
CommandKeysAt(table, s, p) ==
  {n \in 1..Len(table) :
     /\ table[n][1] # <<>> /\ table[n][1][1] = BS
     /\ StartsAt(s, table[n][1], p)
     /\ ~ \E c \in Letters :
            StartsAt(s, <<c>>, p + Len(table[n][1]))}

\* s from offset p on, read left to right: where keys stand, the longest of
\* them gives way to its rendering; every other character stays
RECURSIVE LongestFirst(_, _, _)
LongestFirst(table, s, p) ==
  IF p >= Len(s) THEN <<>>
  ELSE LET at == CommandKeysAt(table, s, p)
       IN  IF at = {} THEN <<s[p + 1]>> \o LongestFirst(table, s, p + 1)
           ELSE LET n == CHOOSE x \in at :
                           \A y \in at : Len(table[y][1]) <= Len(table[x][1])
                IN  table[n][2] \o LongestFirst(table, s, p + Len(table[n][1]))

\* C17: keys are applied longest first and a command key only where no
\* letter follows it: _apply_known_mappings replaces, at every place, the
\* longest key that stands there as a whole command and leaves a longer
\* command without a key as it is (\infty gives the rendering of \infty,
\* \inx stays \inx).
C17_LongestKeyFirst ==
  pc = "done" =>
    /\ result = LongestFirst(math_mappings, formula_arg, 0)
    /\ formula_arg = <<BS, "i", "n", "x">> => result = formula_arg
    /\ formula_arg = <<BS, "i", "n", "f", "t", "y">> => result = <<"U+221E">>

C17_Witness ==
  /\ pc = "done"
  /\ formula_arg = <<BS, "i", "n", "f", "t", "y", BS, "i", "n", "x">>
  /\ result = <<"U+221E", BS, "i", "n", "x">>

\* the argument A of a formula \sqrt{A}
RootArg(s) == Slice(s, Len(SQRT_CMD), Len(s) - 1)

\* the rendering of the root of A: the radical sign and the argument with its
\* keys substituted and its whitespace removed, in parentheses when the
\* argument has an operator
RootOf(table, a) ==
  LET substituted == RemoveSpaces(_apply_known_mappings(table, a))
  IN  IF \E j \in 1..Len(a) : a[j] \in {"+", "-", "*", "/"}
      THEN <<SQRT, "(">> \o substituted \o <<")">>
      ELSE <<SQRT>> \o substituted

\* C18: \sqrt{A} is rendered as the radical sign and the substituted
\* argument without whitespace, in parentheses when the argument contains
\* +, -, * or / and a division counts as such; the engine renders
\* \sqrt{x+1} as the root of (x+1) in parentheses and \sqrt{x} as the root
\* of x without them.
C18_RootRewrite ==
  /\ pc = "rooted" => result = RootOf(math_mappings, RootArg(formula_arg))
  /\ pc = "done" =>
       /\ formula_arg = SqrtSum => result = SqrtSumOut
       /\ formula_arg = SqrtX => result = SqrtXOut
       /\ Contains(RootArg(formula_arg), FRAC_CMD) =>
            /\ Len(result) >= 3
            /\ result[1] = SQRT /\ result[2] = "("
            /\ result[Len(result)] = ")"

\* the engine has rendered the root of a fraction without parentheses
C18_DivisionUnparenthesised ==
  /\ pc = "done"
  /\ formula_arg = SQRT_CMD \o FRAC_CMD \o <<"a", "}", "{", "c", "}", "}">>
  /\ result = <<SQRT, "a", "/", "c">>

\* c as the table writes it, c itself when the table has no entry for it
InTable(script_map, c) ==
  IF c \in DOMAIN script_map THEN script_map[c] ELSE c

\* s from offset p on, read left to right: a mark with a braced, non-empty
\* content or with one letter or digit gives way to the content written
\* through the table; every other character stays
RECURSIVE ScriptPass(_, _, _, _)
ScriptPass(s, mark, script_map, p) ==
  IF p >= Len(s) THEN <<>>
  ELSE LET closing == {q \in (p + 3)..Len(s) : s[q] = "}"}
       IN  IF s[p + 1] = mark /\ p + 2 <= Len(s) /\ s[p + 2] = "{"
              /\ closing # {} /\ MinOf(closing) >= p + 4
           THEN LET q == MinOf(closing)
                IN  [j \in 1..(q - p - 3) |-> InTable(script_map, s[p + 2 + j])]
                      \o ScriptPass(s, mark, script_map, q)
           ELSE IF s[p + 1] = mark /\ p + 2 <= Len(s)
                   /\ s[p + 2] \in Letters \cup Digits
                THEN <<InTable(script_map, s[p + 2])>>
                       \o ScriptPass(s, mark, script_map, p + 2)
                ELSE <<s[p + 1]>> \o ScriptPass(s, mark, script_map, p + 1)

\* C19: ^{content} and ^c are replaced by the content written character by
\* character through the superscript table, then _{content} and _c through
\* the subscript table, a character without an entry staying as it is; the
\* engine renders x^2 + y_i, x^{n+1} and x^{n+1} + y_{i-1} with the
\* superscript and subscript characters of the tables.
C19_ScriptRewrite ==
  pc = "scripted" =>
    /\ result = ScriptPass(ScriptPass(formula_arg, "^", superscript_map, 0),
                           "_", subscript_map, 0)
    /\ formula_arg = ScriptsMixed =>
         create_fallback_representation(math_mappings, formula_arg)
           = ScriptsMixedOut
    /\ formula_arg = ScriptBraced =>
         create_fallback_representation(math_mappings, formula_arg)
           = ScriptBracedOut
    /\ formula_arg = ScriptsBraced =>
         create_fallback_representation(math_mappings, formula_arg)
           = ScriptsBracedOut

C19_Witness ==
  /\ pc = "scripted"
  /\ formula_arg = <<"^", "{", "x", "q", "}">>
  /\ result = <<"U+02E3", "q">>

\* C20: the engine is total: for every formula and every table that an
\* override file can give, renderings with backslashes included,
\* create_fallback_representation returns without raising and leaves the
\* table as it was loaded, and it returns the empty string for the empty
\* string.
C20_EngineTotal ==
  /\ pc # "raised"
  /\ pc = "done" =>
       /\ math_mappings = load_mappings(mapping_file)
       /\ formula_arg = <<>> => result = <<>>

\* the engine has raised re.error on the empty string: the override file
\* gives \foo the rendering \q
C20_TemplateRaised ==
  /\ pc = "raised"
  /\ exc = "re.error"
  /\ formula_arg = <<>>
  /\ mapping_file.entries = << <<<<BS, "f", "o", "o">>, <<BS, "q">> >> >>

\* the spans the call has replaced
WrappedEntries == {j \in CallEntries : trail[j].outcome = "wrapped"}

\* the line from offset p on with every replaced span S written as
\* \texorpdfstring{S}{r}, r the rendering used for it, read left to right;
\* all other characters as they are
RECURSIVE WithWrappers(_)
WithWrappers(p) ==
  LET later == {j \in WrappedEntries : trail[j].start >= p}
  IN  IF later = {} THEN Slice(line, p, Len(line))
      ELSE LET j == CHOOSE n \in later :
                      \A o \in later : trail[n].start <= trail[o].start
           IN  Slice(line, p, trail[j].start)
                 \o TEXORPDFSTRING \o <<"{">>
                 \o Slice(line, trail[j].start, trail[j].end)
                 \o <<"}", "{">> \o trail[j].used \o <<"}">>
                 \o WithWrappers(trail[j].end)

\* C21: on a heading line, each span is judged wrapped or unwrapped on the
\* original line, and the replacements land on their own spans: the result
\* is the original line with each accepted unwrapped span S replaced by
\* \texorpdfstring{S}{r} and every other character unchanged and in place,
\* so that taking the wrappers out gives the original line back.
C21_ReplacementsOnOwnSpans ==
  (pc = "idle" /\ calls >= 1 /\ IsHeadingLine(line)) =>
    /\ result = WithWrappers(0)
    /\ \A j \in CallEntries :
         /\ (trail[j].outcome = "inside")
              = InsideFirstArgument(line, trail[j].start)
         /\ line[trail[j].start + 1] = "$" /\ line[trail[j].end] = "$"
    /\ \A j, n \in CallEntries :
         j < n => trail[n].end <= trail[j].start

\* both spans of the line with two formulas were replaced
C21_Witness ==
  /\ pc = "idle" /\ calls = 1 /\ line = LineTwoFormulas
  /\ Cardinality(WrappedEntries) = 2
  /\ result # line

\* the step is an answer that rejects the span the loop is at
RejectedNow ==
  /\ pc \in {"confirm_input", "custom_input"}
  /\ Len(trail') = Len(trail)
  /\ trail'[Len(trail')].outcome = "rejected"

\* C22: a rejection (n, no, or custom with an empty rendering) leaves the
\* table and the line built so far as they are and goes on to the span
\* before; when the call returns every span of the line has been resolved,
\* every rejected span stands in the result as it stood in the line, and a
\* line whose spans were all rejected is returned as it was.
C22_RejectionLeavesSpan ==
  /\ [][RejectedNow =>
          /\ math_mappings' = math_mappings
          /\ modified_line' = modified_line
          /\ k' = k - 1
          /\ pc' = "loop"]_vars
  /\ [](  (pc = "idle" /\ calls >= 1 /\ IsHeadingLine(line)) =>
            /\ Cardinality(CallEntries) = Len(FindMath(line))
            /\ \A j \in CallEntries :
                 trail[j].outcome \in {"inside", "wrapped", "rejected"}
            /\ \A j \in CallEntries :
                 trail[j].outcome = "rejected" =>
                   Contains(result,
                            Slice(line, trail[j].start, trail[j].end))
            /\ (\A j \in CallEntries : trail[j].outcome = "rejected")
                 => result = line  )

\* on the line with two formulas the second span was rejected with an empty
\* custom rendering and the first was then replaced
C22_Witness ==
  /\ pc = "idle" /\ calls = 1 /\ line = LineTwoFormulas
  /\ "custom" \in prompted
  /\ \E j, n \in CallEntries :
       /\ j < n
       /\ trail[j].outcome = "rejected"
       /\ trail[n].outcome = "wrapped" /\ trail[n].custom = <<>>
  /\ result # line
====
